---- MODULE Spec2Model ----
(***************************************************************************)
(* Landing Factory: the publish pipeline (apps/api), the static renderer   *)
(* (apps/renderer) and the autopost run engine, as one state machine over  *)
(* the relational store, the output directory and the in-flight requests.  *)
(***************************************************************************)
EXTENDS Integers, Sequences, FiniteSets, TLC

\* ------------------------------------------------------------------ bounds
\* What one behaviour may create when requests are handled one at a time:
\* builds, autopost runs, clock advances, schedules.
MaxBuilds == 3
MaxRuns == 2
MaxAdvance == 1
MaxSchedules == 1
\* The same when two requests are in flight at once.
RaceBuilds == 2
RaceRuns == 1
RaceAdvance == 1
\* The same with room for two runs in flight at once.
RunsBuilds == 1
RunsRuns == 2
RunsAdvance == 1
\* What the scheduler loop may create: post pages, builds, clock advances,
\* schedules. Runs that end without a page are not counted.
LoopRuns == 2
LoopBuilds == 2
LoopAdvance == 1
LoopSchedules == 2

\* The slot map is computed for every list of at most MaxLinks assignments.
MaxLinks == 3

\* A page is rendered from every list of at most MaxBlocks blocks, and from every
\* ordering of the five block types.
MaxBlocks == 3

\* The index listing is written by the run that follows up to MaxPosts - 1
\* earlier runs of the section (more than the 30 posts a listing takes).
MaxPosts == 32

\* A build writes the pages of every list of at most MaxRoutes distinct routes.
MaxRoutes == 3

\* What the scheduler loop may create on the day of a weekly schedule: runs,
\* builds, clock advances.
WeeklyRuns == 2
WeeklyBuilds == 2
WeeklyAdvance == 1

\* Request slots: each holds one in-flight handler invocation at a time.
Procs == {"h1", "h2"}

\* ------------------------------------------------------- program constants
MsPerMinute == 60000
MsPerDay == 86400000
DefaultN == 7
DefaultDow == 1
DefaultHour == 10
DefaultMinute == 0
DefaultCronMinutes == 60
MinCronMinutes == 5
IndexTake == 30
TickTake == 5

\* A route is the sequence of the segments that follow its leading slash, split
\* at "/": "/" is one empty segment, "/contacts/" is "contacts" and an empty one.
\* A segment is a name and a timestamp (-1: none): `${section}-${Date.now()}`.
Seg(name) == <<name, -1>>
SlugSeg(section, t) == <<section, t>>
RootRoute == << Seg("") >>
SectionBase(section) == << Seg(section) >>
PostRoute(section, t) == << Seg(section), SlugSeg(section, t) >>

\* The routes a site is created with when the template names none.
DefaultTemplateRoutes == << [route |-> RootRoute, pageType |-> "home"],
                            [route |-> << Seg("contacts") >>, pageType |-> "contacts"] >>

OutDir == "outDir"

VARIABLES
    now,        \* wall clock, milliseconds since a Monday 00:00:00.000
    budget,     \* what the behaviour may still create (bounds the behaviour)
    siteStatus, \* "none" (no site row) | "draft" | "published"
    pages,      \* Page rows in creation order; id = index
    versions,   \* PageVersion rows in creation order; id = index
    builds,     \* Build rows in creation order; id = index
    schedules,  \* AutopostSchedule rows; id = index
    runs,       \* AutopostRun rows; id = index
    files,      \* output directory: set of [dir, page, vid] page files
    robots,     \* robots.txt has been written
    sitemap,    \* sitemap.xml: the sequence of <url><loc> entries last written
    proc,       \* the in-flight handler invocation of each request slot
    calc        \* a call of one of the renderer's pure functions: input and result

vars == << now, budget, siteStatus, pages, versions, builds, schedules,
           runs, files, robots, sitemap, proc, calc >>

\* ----------------------------------------------------------------- helpers
Range(s) == { s[i] : i \in DOMAIN s }

MaxOf(S) == CHOOSE x \in S : \A y \in S : y <= x

\* The larger of two numbers taken to be the second.
MaxInt_Second(a, b) == b

MaxInt(a, b) == IF a >= b THEN a ELSE b

RECURSIVE SetToSeqBy(_, _)
\* The elements of the set of indexes S in increasing order.
SetToSeqBy(S, dummy) ==
    IF S = {} THEN <<>>
    ELSE LET m == CHOOSE x \in S : \A y \in S : x <= y
         IN <<m>> \o SetToSeqBy(S \ {m}, dummy)

SortedIds(S) == SetToSeqBy(S, 0)


\* ------------------------------------------------------- cadence calculator
\* A cadence document: `has` names the fields the JSON carries.
CadenceJson(has, n, dow, hour, minute, minutes) ==
    [has |-> has, n |-> n, dow |-> dow, hour |-> hour, minute |-> minute,
     minutes |-> minutes]

\* cadenceJson?.k ?? dflt
FieldOr(cj, k, v, dflt) == IF k \in cj.has THEN v ELSE dflt

\* The day's time left as it is.
SetHours_Kept(t, hour, minute) == t

\* Date.getDay(): 0 = Sunday; time 0 is a Monday.
GetDay(t) == ((t \div MsPerDay) + 1) % 7

\* Date.setHours(hour, minute, 0, 0) on the day of t.
SetHours(t, hour, minute) ==
    (t \div MsPerDay) * MsPerDay + hour * 60 * MsPerMinute + minute * MsPerMinute

computeNextRunAt(t, cadenceType, cj) ==
    IF cadenceType = "every_n_days"
    THEN t + MaxInt(1, FieldOr(cj, "n", cj.n, DefaultN)) * MsPerDay
    ELSE IF cadenceType = "weekly"
    THEN LET dow == FieldOr(cj, "dow", cj.dow, DefaultDow)
             hour == FieldOr(cj, "hour", cj.hour, DefaultHour)
             minute == FieldOr(cj, "minute", cj.minute, DefaultMinute)
             currentDow == ((GetDay(t) + 6) % 7) + 1
             d0 == dow - currentDow
             addDays == IF d0 <= 0 THEN d0 + 7 ELSE d0
         IN SetHours(t + addDays * MsPerDay, hour, minute)
    ELSE t + MaxInt(MinCronMinutes, FieldOr(cj, "minutes", cj.minutes, DefaultCronMinutes))
             * MsPerMinute

\* ------------------------------------------------------------------- store
PageIds == DOMAIN pages
VersionIds == DOMAIN versions
BuildIds == DOMAIN builds

VersionsOf(pid) == { v \in VersionIds : versions[v].pageId = pid }

\* findFirst({ where: { pageId }, orderBy: { versionNumber: "desc" } }): the rows
\* the store may return first (several when version numbers tie).
LatestCands(pid) ==
    { v \in VersionsOf(pid) :
        \A w \in VersionsOf(pid) : versions[w].versionNumber <= versions[v].versionNumber }

\* findUnique({ where: { siteId_route } }): the page ids holding the route.
PagesWithRoute(route) == { i \in PageIds : pages[i].route = route }

\* build.findFirst({ orderBy: { buildNumber: "desc" } })?.buildNumber ?? 0
LastBuildNumber == IF builds = <<>> THEN 0 ELSE MaxOf({ builds[b].buildNumber : b \in BuildIds })

NewPage(route, pageType, slug) ==
    [route |-> route, pageType |-> pageType, status |-> "draft", slug |-> slug,
     createdAt |-> now]

NewVersion(pid, num, isPublished, kind, list) ==
    [pageId |-> pid, versionNumber |-> num, isPublished |-> isPublished,
     kind |-> kind, list |-> list]

\* ------------------------------------------------------------ request slots
\* A slot holds the handler's position (pc) and locals, and two records of what
\* it has done: `had`, the pages that had a version when the publish loaded the
\* site, and `cadenceAt`, the time at which the run recomputed the cadence.
NoResp == [ok |-> FALSE, text |-> "", artifactPath |-> "", pages |-> 0]

Idle == [kind |-> "idle", pc |-> "idle", snap |-> <<>>, i |-> 0,
         nextBuildNumber |-> 0, buildId |-> 0, plan |-> <<>>, resp |-> NoResp,
         pub |-> "none", err |-> <<>>,
         due |-> <<>>, at |-> 0, sid |-> 0, runId |-> 0, postPage |-> 0, route |-> <<>>,
         indexPage |-> 0, vnum |-> 0, posts |-> <<>>, result |-> "none",
         had |-> {}, cadenceAt |-> -1]

\* No pure function has been called.
NoCalc == [op |-> "none"]

\* The store and the output directory before any request.
EmptyStore(b) ==
    /\ now = 0
    /\ budget = b
    /\ siteStatus = "none"
    /\ pages = <<>>
    /\ versions = <<>>
    /\ builds = <<>>
    /\ schedules = <<>>
    /\ runs = <<>>
    /\ files = {}
    /\ robots = FALSE
    /\ sitemap = <<>>
    /\ proc = [p \in Procs |-> Idle]

InitWith(b) ==
    /\ calc = NoCalc
    /\ EmptyStore(b)

Init ==
    InitWith([builds |-> MaxBuilds, runs |-> MaxRuns, advances |-> MaxAdvance,
              schedules |-> MaxSchedules])

InitRace ==
    InitWith([builds |-> RaceBuilds, runs |-> RaceRuns, advances |-> RaceAdvance,
              schedules |-> MaxSchedules])

InitRuns ==
    InitWith([builds |-> RunsBuilds, runs |-> RunsRuns, advances |-> RunsAdvance,
              schedules |-> MaxSchedules])

InitLoop ==
    InitWith([builds |-> LoopBuilds, runs |-> LoopRuns, advances |-> LoopAdvance,
              schedules |-> LoopSchedules])

\* A request takes the first free slot.
FreeSlot(p) ==
    /\ proc[p].kind = "idle"
    /\ \A q \in Procs : (q = "h1" /\ p = "h2") => proc[q].kind # "idle"

\* -------------------------------------------------------------- environment
\* POST /sites: the site, and a page with its version 1 for each template route.
CreateSite ==
    /\ siteStatus = "none"
    /\ siteStatus' = "draft"
    /\ LET n == Len(DefaultTemplateRoutes)
       IN /\ pages' = [i \in 1..n |->
                NewPage(DefaultTemplateRoutes[i].route, DefaultTemplateRoutes[i].pageType,
                        Seg(""))]
          /\ versions' = [i \in 1..n |-> NewVersion(i, 1, FALSE, "starter", <<>>)]
    /\ UNCHANGED << now, budget, builds, schedules, runs, files, robots, sitemap, proc,
                    calc >>

\* The cadence documents schedules are created with.
CadenceInputs ==
    { [type |-> "cron", json |-> CadenceJson({"minutes"}, 0, 0, 0, 0, 2)] }

Sections == {"blog"}

\* POST /autopost/schedules
CreateSchedule ==
    /\ siteStatus # "none"
    /\ budget.schedules > 0
    /\ budget' = [budget EXCEPT !.schedules = @ - 1]
    /\ \E c \in CadenceInputs, section \in Sections, requireApproval \in BOOLEAN,
          isEnabled \in BOOLEAN :
          schedules' = Append(schedules,
              [section |-> section, cadenceType |-> c.type, cadenceJson |-> c.json,
               requireApproval |-> requireApproval, isEnabled |-> isEnabled,
               nextRunAt |-> computeNextRunAt(now, c.type, c.json), lastRunAt |-> -1])
    /\ UNCHANGED << now, siteStatus, pages, versions, builds, runs, files,
                    robots, sitemap, proc,
                    calc >>

\* Time passes: a millisecond, or up to the next due time of a schedule.
Advance ==
    /\ budget.advances > 0
    /\ budget' = [budget EXCEPT !.advances = @ - 1]
    /\ \E t \in {now + 1} \cup { schedules[s].nextRunAt : s \in DOMAIN schedules } :
          /\ t > now
          /\ now' = t
    /\ UNCHANGED << siteStatus, pages, versions, builds, schedules, runs, files, robots,
                    sitemap, proc,
                    calc >>


\* ---------------------------------------------------------- publish pipeline
\* POST /sites/:id/publish and internalPublishSite run the same steps; `pub` is
\* the state of the invocation: "active", then "ok", "renderer_error" (the
\* renderer answered non-2xx) or "threw" (another exception left the pipeline).

\* The pipeline of a slot ends: a manual publish answers its caller, a nested one
\* returns to (or throws into) runAutopostSchedule.
PubEnd(rec, outcome, msg) ==
    [rec EXCEPT !.pc = IF rec.kind = "manual" THEN "done"
                       ELSE IF outcome = "ok" THEN "run_success" ELSE "run_catch",
                !.pub = outcome, !.err = msg,
                !.result = IF rec.kind # "manual" THEN rec.result
                           ELSE IF outcome = "ok" THEN "ok" ELSE "error",
                !.snap = <<>>, !.i = 0, !.nextBuildNumber = 0, !.plan = <<>>,
                !.resp = NoResp, !.had = {}]

\* site.findUnique and page.findMany({ where: { siteId } })
Loaded(rec) ==
    IF siteStatus = "none"
    THEN PubEnd(rec, "threw", << "Site not found" >>)
    ELSE [rec EXCEPT !.pub = "active", !.snap = [i \in 1..Len(pages) |-> i], !.i = 1,
                     !.had = { pid \in PageIds : VersionsOf(pid) # {} },
                     !.pc = IF pages = <<>> THEN "pub_lastbuild" ELSE "pub_promote"]

\* A manual publish arrives and loads the site and its pages.
StartManual(p) ==
    /\ FreeSlot(p)
    /\ budget.builds > 0
    /\ budget' = [budget EXCEPT !.builds = @ - 1]
    /\ proc' = [proc EXCEPT ![p] = Loaded([Idle EXCEPT !.kind = "manual"])]
    /\ UNCHANGED << now, siteStatus, pages, versions, builds, schedules, runs,
                    files, robots, sitemap,
                    calc >>

\* internalPublishSite loads the site and its pages.
PubLoad(p) ==
    /\ proc[p].pc = "pub_load"
    /\ proc' = [proc EXCEPT ![p] = Loaded(@)]
    /\ UNCHANGED << now, budget, siteStatus, pages, versions, builds, schedules, runs,
                    files, robots, sitemap,
                    calc >>

\* What the promotion loop does to the versions of page pid, given its latest.
PromoteVersions(pid, latest) == [versions EXCEPT ![latest].isPublished = TRUE]

\* The loop without its page.update.
PromotePage_Skip(pid) == pages

\* What the promotion loop does to the page rows.
PromotePage(pid) == [pages EXCEPT ![pid].status = "published"]

\* One turn of "for (const p of pages)": flag the latest version, publish the page.
PubPromote(p) ==
    /\ proc[p].pc = "pub_promote"
    /\ LET pid == proc[p].snap[proc[p].i]
       IN IF VersionsOf(pid) = {}
          THEN UNCHANGED << versions, pages >>
          ELSE /\ \E latest \in LatestCands(pid) : versions' = PromoteVersions(pid, latest)
               /\ pages' = PromotePage(pid)
    /\ proc' = [proc EXCEPT ![p] =
          IF proc[p].i = Len(proc[p].snap)
          THEN [@ EXCEPT !.i = 0, !.snap = <<>>, !.pc = "pub_lastbuild"]
          ELSE [@ EXCEPT !.i = @ + 1]]
    /\ UNCHANGED << now, budget, siteStatus, builds, schedules, runs, files, robots,
                    sitemap,
                    calc >>

\* The allocation without its increment.
NextBuildNumber_Reuse == LastBuildNumber

\* (lastBuild?.buildNumber ?? 0) + 1
NextBuildNumber == LastBuildNumber + 1

PubLastBuild(p) ==
    /\ proc[p].pc = "pub_lastbuild"
    /\ proc' = [proc EXCEPT ![p] = [@ EXCEPT !.nextBuildNumber = NextBuildNumber,
                                             !.pc = "pub_create"]]
    /\ UNCHANGED << now, budget, siteStatus, pages, versions, builds, schedules, runs,
                    files, robots, sitemap,
                    calc >>

\* The schema's constraint on Build rows: whether the store rejects a build
\* whose buildNumber the site already holds.
BuildNumberRejected(n) == FALSE

\* build.create({ buildNumber: nextBuildNumber, status: "queued", artifactPath: "" })
PubCreate(p) ==
    /\ proc[p].pc = "pub_create"
    /\ IF BuildNumberRejected(proc[p].nextBuildNumber)
       THEN /\ proc' = [proc EXCEPT ![p] = PubEnd(@, "threw", << "Unique constraint failed" >>)]
            /\ UNCHANGED builds
       ELSE /\ builds' = Append(builds,
                   [buildNumber |-> proc[p].nextBuildNumber, status |-> "queued",
                    artifactPath |-> "", logs |-> ""])
            /\ proc' = [proc EXCEPT ![p] = [@ EXCEPT !.buildId = Len(builds) + 1,
                                                     !.nextBuildNumber = 0,
                                                     !.pc = "pub_fetch"]]
    /\ UNCHANGED << now, budget, siteStatus, pages, versions, schedules, runs, files,
                    robots, sitemap,
                    calc >>

\* ------------------------------------------------------------------ renderer
\* routeToFile(route).dir: "/" is the output root; otherwise the route without
\* its leading slash and without one trailing slash.
routeToFile(route) ==
    IF route = RootRoute THEN <<>>
    ELSE LET clean == IF route[Len(route)] = Seg("") THEN SubSeq(route, 1, Len(route) - 1)
                      ELSE route
         IN IF clean = << Seg("") >> THEN <<>> ELSE clean

\* The selection without its find(v => v.isPublished).
Authoritative_Latest(pid) == LatestCands(pid)

\* page.versions.find(v => v.isPublished) ?? page.versions.sort(desc)[0]: the
\* versions the expression may yield (the store returns a page's versions in no
\* stated order, so any published version may come first).
Authoritative(pid) ==
    IF \E v \in VersionsOf(pid) : versions[v].isPublished
    THEN { v \in VersionsOf(pid) : versions[v].isPublished }
    ELSE LatestCands(pid)

RECURSIVE Plans(_)
\* The render plans of the pages pids, in order: a version for each page that
\* has one ("if (!published) continue" drops the others).
Plans(pids) ==
    IF pids = <<>> THEN { <<>> }
    ELSE LET pid == Head(pids)
             rest == Plans(Tail(pids))
         IN IF VersionsOf(pid) = {} THEN rest
            ELSE { << [page |-> pid, route |-> pages[pid].route, vid |-> v] >> \o r :
                     v \in Authoritative(pid), r \in rest }

\* The output directory after the first k files of plan are written over fs.
WriteFiles(fs, plan, k) ==
    LET written == { [dir |-> routeToFile(plan[j].route), page |-> plan[j].page,
                      vid |-> plan[j].vid, j |-> j] : j \in 1..k }
        last == { w \in written : \A x \in written : x.dir = w.dir => x.j <= w.j }
    IN { f \in fs : \A w \in written : w.dir # f.dir }
       \cup { [dir |-> w.dir, page |-> w.page, vid |-> w.vid] : w \in last }

\* The routes array that lists every page route as it is, "/" included.
SitemapRoutes_KeepRoot(plan) == [j \in 1..Len(plan) |-> plan[j].route]

\* routes.push(page.route === "/" ? "" : page.route)
SitemapRoutes(plan) ==
    [j \in 1..Len(plan) |-> IF plan[j].route = RootRoute THEN <<>> ELSE plan[j].route]

\* site.domain.domainName
DomainName == "site.example"

\* `<url><loc>https://${site.domain.domainName}${r}</loc></url>`
Loc(r) == [scheme |-> "https", host |-> DomainName, path |-> r]

\* routes.map(r => ...): the entries of sitemap.xml, in order
SitemapXml(routes) == [j \in 1..Len(routes) |-> Loc(routes[j])]

\* fetch(RENDERER_URL/render/site/:id): the call rejects (no connection) and the
\* exception leaves the pipeline, or the request reaches the renderer, which
\* reads the site with its pages and their versions.
PubFetch(p) ==
    /\ proc[p].pc = "pub_fetch"
    /\ \/ proc' = [proc EXCEPT ![p] = PubEnd(@, "threw", << "fetch failed" >>)]
       \/ \E plan \in Plans([i \in 1..Len(pages) |-> i]) :
             proc' = [proc EXCEPT ![p] = [@ EXCEPT !.plan = plan, !.pc = "r_write"]]
    /\ UNCHANGED << now, budget, siteStatus, pages, versions, builds, schedules, runs,
                    files, robots, sitemap,
                    calc >>

\* The page loop, robots.txt and sitemap.xml; a filesystem error at the k+1st
\* page leaves the first k files written and answers 500.
RWrite(p) ==
    /\ proc[p].pc = "r_write"
    /\ \E k \in 0..Len(proc[p].plan) :
          /\ files' = WriteFiles(files, proc[p].plan, k)
          /\ IF k = Len(proc[p].plan)
             THEN /\ robots' = TRUE
                  /\ sitemap' = SitemapXml(SitemapRoutes(proc[p].plan))
                  /\ proc' = [proc EXCEPT ![p] =
                        [@ EXCEPT !.pc = "r_ready", !.plan = <<>>,
                                  !.resp = [ok |-> TRUE, text |-> "",
                                            artifactPath |-> OutDir, pages |-> k]]]
             ELSE /\ UNCHANGED << robots, sitemap >>
                  /\ proc' = [proc EXCEPT ![p] =
                        [@ EXCEPT !.pc = "pub_resp", !.plan = <<>>,
                                  !.resp = [NoResp EXCEPT !.text = "fs error"]]]
    /\ UNCHANGED << now, budget, siteStatus, pages, versions, builds, schedules, runs,
                    calc >>

\* The renderer that leaves the Build as it is.
ReadyBuild_Skipped(b) == b

\* data: { status: "ready", finishedAt, sitemapPath, robotsPath }
ReadyBuild(b) == [b EXCEPT !.status = "ready"]

\* build.update({ status: "ready" }) and the 200 answer.
RReady(p) ==
    /\ proc[p].pc = "r_ready"
    /\ builds' = [builds EXCEPT ![proc[p].buildId] = ReadyBuild(@)]
    /\ proc' = [proc EXCEPT ![p] = [@ EXCEPT !.pc = "pub_resp"]]
    /\ UNCHANGED << now, budget, siteStatus, pages, versions, schedules, runs, files,
                    robots, sitemap,
                    calc >>

\* A render of the site is in flight for slot p.
Rendering(p) == proc[p].pc \in {"r_write", "r_ready"}

\* The failure branch without its logs.
FailedBuild_NoLogs(b, t) == [b EXCEPT !.status = "failed"]

\* What the pipeline writes to the Build when the renderer answers non-2xx.
FailedBuild(b, t) == [b EXCEPT !.status = "failed", !.logs = t]

\* app.httpErrors.badRequest(`Renderer error: ${t}`): the message of the error.
RendererError(t) == << "Renderer error: ", t >>

\* What the pipeline writes to the Build when the renderer answers 2xx.
PublishedBuild(b, out) == [b EXCEPT !.status = "published", !.artifactPath = out.artifactPath]

\* What the pipeline writes to the Site when the renderer answers 2xx.
PublishedSite == "published"

\* The answer reaches the pipeline: "if (!r.ok) ... throw", else the Build and
\* the Site are marked published; or the call rejects and the exception leaves.
PubResp(p) ==
    /\ proc[p].pc = "pub_resp"
    /\ \/ /\ proc' = [proc EXCEPT ![p] = PubEnd(@, "threw", << "fetch failed" >>)]
          /\ UNCHANGED << builds, siteStatus >>
       \/ /\ ~proc[p].resp.ok
          /\ builds' = [builds EXCEPT ![proc[p].buildId] = FailedBuild(@, proc[p].resp.text)]
          /\ proc' = [proc EXCEPT ![p] = PubEnd(@, "renderer_error", RendererError(proc[p].resp.text))]
          /\ UNCHANGED siteStatus
       \/ /\ proc[p].resp.ok
          /\ builds' = [builds EXCEPT ![proc[p].buildId] = PublishedBuild(@, proc[p].resp)]
          /\ siteStatus' = PublishedSite
          /\ proc' = [proc EXCEPT ![p] = PubEnd(@, "ok", <<>>)]
    /\ UNCHANGED << now, budget, pages, versions, schedules, runs, files, robots,
                    sitemap,
                    calc >>

\* The caller has its answer; the slot is free again.
Return(p) ==
    /\ proc[p].pc = "done"
    /\ proc' = [proc EXCEPT ![p] = Idle]
    /\ UNCHANGED << now, budget, siteStatus, pages, versions, builds, schedules, runs,
                    files, robots, sitemap,
                    calc >>


\* ------------------------------------------------------- autopost run engine
\* The filter that takes every page.
StartsWithBase_Any(route, section) == TRUE

\* route: { startsWith: `${base}/` }
StartsWithBase(route, section) == Len(route) >= 2 /\ route[1] = Seg(section)

PostIds(section) == { i \in PageIds : StartsWithBase(pages[i].route, section) }

RECURSIVE NewestFirst(_, _)
\* orderBy: { createdAt: "desc" }, take: k over the pages ids: the lists the
\* store may return (pages created in the same millisecond come in any order).
NewestFirst(ids, k) ==
    IF k = 0 \/ ids = {} THEN { <<>> }
    ELSE UNION { { << x >> \o l : l \in NewestFirst(ids \ {x}, k - 1) } :
                 x \in { y \in ids : \A z \in ids : pages[y].createdAt >= pages[z].createdAt } }

\* page.findMany({ where: { siteId, route: { startsWith } }, orderBy: { createdAt:
\* "desc" }, take: 30 })
PostLists(section) == NewestFirst(PostIds(section), IndexTake)

\* The run of a slot ends with outcome "ok", "noop" or "error": run-now answers
\* its caller; the tick goes on to the next due schedule, or ends at the first
\* exception (its try/catch encloses the whole loop).
RunEnd(rec, outcome) ==
    IF rec.kind = "runnow" \/ outcome = "error" \/ rec.at >= Len(rec.due)
    THEN [Idle EXCEPT !.kind = rec.kind, !.pc = "done", !.result = outcome,
                      !.sid = rec.sid, !.runId = rec.runId, !.buildId = rec.buildId,
                      !.pub = rec.pub]
    ELSE [Idle EXCEPT !.kind = "tick", !.pc = "run_load", !.due = rec.due,
                      !.at = rec.at + 1, !.sid = rec.due[rec.at + 1]]

\* POST /autopost/schedules/:id/run-now
StartRunNow(p) ==
    /\ FreeSlot(p)
    /\ budget.runs > 0
    /\ \E sid \in DOMAIN schedules :
          /\ schedules[sid].requireApproval \/ budget.builds > 0
          /\ budget' = [budget EXCEPT !.runs = @ - 1,
                                      !.builds = IF schedules[sid].requireApproval
                                                 THEN @ ELSE @ - 1]
          /\ proc' = [proc EXCEPT ![p] = [Idle EXCEPT !.kind = "runnow", !.pc = "run_load",
                                                      !.sid = sid]]
    /\ UNCHANGED << now, siteStatus, pages, versions, builds, schedules, runs,
                    files, robots, sitemap,
                    calc >>

\* findMany({ where: { isEnabled: true, nextRunAt: { lte: now } }, take: 5 }):
\* the lists the store may return (the query states no order).
DueSchedules ==
    LET due == { s \in DOMAIN schedules :
                   schedules[s].isEnabled /\ schedules[s].nextRunAt <= now }
        k == IF Cardinality(due) <= TickTake THEN Cardinality(due) ELSE TickTake
    IN { l \in [1..k -> due] : \A i, j \in 1..k : l[i] = l[j] => i = j }

\* The setInterval callback fires and queries the due schedules.
StartTick(p) ==
    /\ FreeSlot(p)
    /\ \E due \in DueSchedules :
       LET nb == Cardinality({ j \in DOMAIN due : ~schedules[due[j]].requireApproval })
       IN /\ budget.runs >= Len(due)
          /\ budget.builds >= nb
          /\ budget' = [budget EXCEPT !.runs = @ - Len(due), !.builds = @ - nb]
          /\ proc' = [proc EXCEPT ![p] =
                IF due = <<>>
                THEN [Idle EXCEPT !.kind = "tick", !.pc = "done", !.result = "ok"]
                ELSE [Idle EXCEPT !.kind = "tick", !.pc = "run_load", !.due = due, !.at = 1,
                                  !.sid = due[1]]]
    /\ UNCHANGED << now, siteStatus, pages, versions, builds, schedules, runs,
                    files, robots, sitemap,
                    calc >>

\* The test without its effect: every schedule is run.
Declined_Never(s) == FALSE

\* if (!schedule.isEnabled) return { ok: false, message: "Schedule disabled" }
Declined(s) == ~s.isEnabled

\* schedule lookup, the isEnabled test and autopostRun.create({ status: "running" })
RunLoad(p) ==
    /\ proc[p].pc = "run_load"
    /\ IF Declined(schedules[proc[p].sid])
       THEN /\ proc' = [proc EXCEPT ![p] = RunEnd(@, "noop")]
            /\ UNCHANGED runs
       ELSE /\ runs' = Append(runs, [scheduleId |-> proc[p].sid, status |-> "running",
                                     logs |-> <<>>, postRoute |-> <<>>, published |-> 0,
                                     createdPageId |-> 0, createdAt |-> now])
            /\ proc' = [proc EXCEPT ![p] = [@ EXCEPT !.runId = Len(runs) + 1,
                                                     !.pc = "run_post"]]
    /\ UNCHANGED << now, budget, siteStatus, pages, versions, builds, schedules,
                    files, robots, sitemap,
                    calc >>

\* page.create of the post, route `/${section}/${section}-${Date.now()}`; the
\* store rejects a (siteId, route) it already holds, and the call may fail for
\* a reason of the store's own.
RunPost(p) ==
    /\ proc[p].pc = "run_post"
    /\ LET section == schedules[proc[p].sid].section
           route == PostRoute(section, now)
       IN \/ IF PagesWithRoute(route) # {}
             THEN /\ proc' = [proc EXCEPT ![p] =
                        [@ EXCEPT !.pc = "run_catch",
                                  !.err = << "Unique constraint failed" >>]]
                  /\ UNCHANGED pages
             ELSE /\ pages' = Append(pages, NewPage(route, "post", SlugSeg(section, now)))
                  /\ proc' = [proc EXCEPT ![p] =
                        [@ EXCEPT !.pc = "run_postver", !.route = route,
                                  !.postPage = Len(pages) + 1]]
          \/ /\ proc' = [proc EXCEPT ![p] =
                   [@ EXCEPT !.pc = "run_catch", !.err = << "store error" >>]]
             /\ UNCHANGED pages
    /\ UNCHANGED << now, budget, siteStatus, versions, builds, schedules, runs, files,
                    robots, sitemap,
                    calc >>

\* The version that is never created published.
PublishedOnCreate_Never(s) == FALSE

\* isPublished: !schedule.requireApproval
PublishedOnCreate(s) == ~s.requireApproval

\* pageVersion.create of the post: version 1, isPublished: !requireApproval
RunPostVer(p) ==
    /\ proc[p].pc = "run_postver"
    /\ versions' = Append(versions,
          NewVersion(proc[p].postPage, 1, PublishedOnCreate(schedules[proc[p].sid]),
                     "post", <<>>))
    /\ proc' = [proc EXCEPT ![p] = [@ EXCEPT !.pc = "run_ensure"]]
    /\ UNCHANGED << now, budget, siteStatus, pages, builds, schedules, runs, files,
                    robots, sitemap,
                    calc >>

\* const existing = await prisma.page.findUnique({ where: { siteId_route } })
ExistingPage(route) == PagesWithRoute(route)

\* ensureIndexPage: page.findUnique({ siteId_route })
EnsureFind(p) ==
    /\ proc[p].pc = "run_ensure"
    /\ LET found == ExistingPage(SectionBase(schedules[proc[p].sid].section))
       IN proc' = [proc EXCEPT ![p] =
             IF found # {}
             THEN [@ EXCEPT !.indexPage = CHOOSE i \in found : TRUE, !.pc = "run_index_read"]
             ELSE [@ EXCEPT !.pc = "run_ensure_create"]]
    /\ UNCHANGED << now, budget, siteStatus, pages, versions, builds, schedules, runs,
                    files, robots, sitemap,
                    calc >>

\* ensureIndexPage: page.create of the index page
EnsureCreate(p) ==
    /\ proc[p].pc = "run_ensure_create"
    /\ LET base == SectionBase(schedules[proc[p].sid].section)
       IN IF PagesWithRoute(base) # {}
          THEN /\ proc' = [proc EXCEPT ![p] =
                     [@ EXCEPT !.pc = "run_catch", !.err = << "Unique constraint failed" >>]]
               /\ UNCHANGED pages
          ELSE /\ pages' = Append(pages, NewPage(base, "index", Seg("")))
               /\ proc' = [proc EXCEPT ![p] =
                     [@ EXCEPT !.pc = "run_ensure_ver", !.indexPage = Len(pages) + 1]]
    /\ UNCHANGED << now, budget, siteStatus, versions, builds, schedules, runs, files,
                    robots, sitemap,
                    calc >>

\* ensureIndexPage: pageVersion.create of the placeholder version 1
EnsureVersion(p) ==
    /\ proc[p].pc = "run_ensure_ver"
    /\ versions' = Append(versions, NewVersion(proc[p].indexPage, 1, FALSE, "placeholder", <<>>))
    /\ proc' = [proc EXCEPT ![p] = [@ EXCEPT !.pc = "run_index_read"]]
    /\ UNCHANGED << now, budget, siteStatus, pages, builds, schedules, runs, files,
                    robots, sitemap,
                    calc >>

\* (indexLatest?.versionNumber ?? 0) + 1
NextVersionNumber(pid) ==
    IF VersionsOf(pid) = {} THEN 1
    ELSE MaxOf({ versions[v].versionNumber : v \in VersionsOf(pid) }) + 1

\* pageVersion.findFirst of the index page and page.findMany of the posts
RunIndexRead(p) ==
    /\ proc[p].pc = "run_index_read"
    /\ \E l \in PostLists(schedules[proc[p].sid].section) :
          proc' = [proc EXCEPT ![p] =
             [@ EXCEPT !.vnum = NextVersionNumber(proc[p].indexPage), !.posts = l,
                       !.pc = "run_index_create"]]
    /\ UNCHANGED << now, budget, siteStatus, pages, versions, builds, schedules, runs,
                    files, robots, sitemap,
                    calc >>

\* pageVersion.create rejected by a uniqueness constraint on (pageId,
\* versionNumber): none is stated for PageVersion, so the store takes a version
\* whose number the page already holds.
VersionNumberRejected(pid, n) == FALSE

\* pageVersion.create of the index listing
RunIndexCreate(p) ==
    /\ proc[p].pc = "run_index_create"
    /\ IF VersionNumberRejected(proc[p].indexPage, proc[p].vnum)
       THEN /\ proc' = [proc EXCEPT ![p] =
                  [@ EXCEPT !.pc = "run_catch", !.err = << "Unique constraint failed" >>]]
            /\ UNCHANGED versions
       ELSE /\ versions' = Append(versions,
                  NewVersion(proc[p].indexPage, proc[p].vnum,
                             PublishedOnCreate(schedules[proc[p].sid]), "index",
                             proc[p].posts))
            /\ proc' = [proc EXCEPT ![p] = [@ EXCEPT !.pc = "run_cadence", !.posts = <<>>,
                                                     !.vnum = 0, !.indexPage = 0]]
    /\ UNCHANGED << now, budget, siteStatus, pages, builds, schedules, runs, files,
                    robots, sitemap,
                    calc >>

\* The schedule row after the cadence step of a run at time t.
Rescheduled(s, t) ==
    [s EXCEPT !.nextRunAt = computeNextRunAt(t, s.cadenceType, s.cadenceJson),
              !.lastRunAt = t]

\* The run that publishes whatever the schedule says.
AutoPublish_Always(s) == TRUE

\* if (!schedule.requireApproval) { published = await internalPublishSite(siteId) }
AutoPublish(s) == ~s.requireApproval

\* computeNextRunAt(new Date(), ...) and autopostSchedule.update; then the nested
\* publish when the schedule needs no approval.
RunCadence(p) ==
    /\ proc[p].pc = "run_cadence"
    /\ schedules' = [schedules EXCEPT ![proc[p].sid] = Rescheduled(@, now)]
    /\ proc' = [proc EXCEPT ![p] =
          IF AutoPublish(schedules[proc[p].sid])
          THEN [@ EXCEPT !.pc = "pub_load", !.cadenceAt = now]
          ELSE [@ EXCEPT !.pc = "run_success", !.cadenceAt = now]]
    /\ UNCHANGED << now, budget, siteStatus, pages, versions, builds, runs, files,
                    robots, sitemap,
                    calc >>

\* The success update without its createdPageId.
SucceededRun_NoPage(r, route, published, pageId) ==
    [r EXCEPT !.status = "success", !.postRoute = route, !.published = published]

\* data: { status: "success", resultJson: { postRoute, published }, createdPageId }
SucceededRun(r, route, published, pageId) ==
    [r EXCEPT !.status = "success", !.postRoute = route, !.published = published,
              !.createdPageId = pageId]

\* The catch without its status.
FailedRun_StillRunning(r, msg) == [r EXCEPT !.logs = msg]

\* data: { status: "failed", logs: String(e?.message ?? e) }
FailedRun(r, msg) == [r EXCEPT !.status = "failed", !.logs = msg]

\* autopostRun.update({ status: "success", resultJson, createdPageId })
RunSuccess(p) ==
    /\ proc[p].pc = "run_success"
    /\ runs' = [runs EXCEPT ![proc[p].runId] =
                   SucceededRun(@, proc[p].route, proc[p].buildId, proc[p].postPage)]
    /\ proc' = [proc EXCEPT ![p] = RunEnd(@, "ok")]
    /\ UNCHANGED << now, budget, siteStatus, pages, versions, builds, schedules,
                    files, robots, sitemap,
                    calc >>

\* catch (e): autopostRun.update({ status: "failed", logs }) and throw e
RunCatch(p) ==
    /\ proc[p].pc = "run_catch"
    /\ runs' = [runs EXCEPT ![proc[p].runId] = FailedRun(@, proc[p].err)]
    /\ proc' = [proc EXCEPT ![p] = RunEnd(@, "error")]
    /\ UNCHANGED << now, budget, siteStatus, pages, versions, builds, schedules,
                    files, robots, sitemap,
                    calc >>

\* ------------------------------------------------------------ specification
\* The steps of the requests held by the slots P.
NextOver(P) ==
    \/ CreateSite
    \/ CreateSchedule
    \/ Advance
    \/ \E p \in P :
          \/ StartManual(p)
          \/ PubLoad(p)
          \/ PubPromote(p)
          \/ PubLastBuild(p)
          \/ PubCreate(p)
          \/ PubFetch(p)
          \/ RWrite(p)
          \/ RReady(p)
          \/ PubResp(p)
          \/ Return(p)
          \/ StartRunNow(p)
          \/ StartTick(p)
          \/ RunLoad(p)
          \/ RunPost(p)
          \/ RunPostVer(p)
          \/ EnsureFind(p)
          \/ EnsureCreate(p)
          \/ EnsureVersion(p)
          \/ RunIndexRead(p)
          \/ RunIndexCreate(p)
          \/ RunCadence(p)
          \/ RunSuccess(p)
          \/ RunCatch(p)

\* Requests handled one at a time.
Next == NextOver({"h1"})

Spec == Init /\ [][Next]_vars

\* Two requests in flight at once.
NextRace == NextOver(Procs)

SpecRace == InitRace /\ [][NextRace]_vars

\* The post pages the runs have created.
PostPages == { i \in PageIds : pages[i].pageType = "post" }

\* What the scheduler loop may still create, given what exists.
LoopRoom ==
    [budget EXCEPT !.runs = LoopRuns - Cardinality(PostPages),
                   !.builds = LoopBuilds - Len(builds)]

\* AutopostRun rows are written by their own run only (autopostRun.update by
\* run.id) and read by no handler: between ticks the rows of ended runs leave
\* the model, and what they did not create may be created by later runs.
ForgetEndedRuns ==
    /\ \A p \in Procs : proc[p].kind = "idle"
    /\ runs # <<>> \/ budget # LoopRoom
    /\ runs' = <<>>
    /\ budget' = LoopRoom
    /\ UNCHANGED << now, siteStatus, pages, versions, builds, schedules, files, robots,
                    sitemap, proc,
                    calc >>

\* The steps of the scheduler's callback held by slot p.
TickSteps(p) ==
    \/ StartTick(p)
    \/ RunLoad(p)
    \/ RunPost(p)
    \/ RunPostVer(p)
    \/ EnsureFind(p)
    \/ EnsureCreate(p)
    \/ EnsureVersion(p)
    \/ RunIndexRead(p)
    \/ RunIndexCreate(p)
    \/ RunCadence(p)
    \/ PubLoad(p)
    \/ PubPromote(p)
    \/ PubLastBuild(p)
    \/ PubCreate(p)
    \/ PubFetch(p)
    \/ RWrite(p)
    \/ RReady(p)
    \/ PubResp(p)
    \/ RunSuccess(p)
    \/ RunCatch(p)
    \/ Return(p)

\* The scheduler loop alone: setInterval fires again and again, and each
\* awaited call of its callback completes.
LoopWork == ForgetEndedRuns \/ TickSteps("h1")

NextLoop ==
    \/ CreateSite
    \/ CreateSchedule
    \/ Advance
    \/ LoopWork

SpecLoop == InitLoop /\ [][NextLoop]_vars /\ WF_vars(LoopWork)

\* Two requests in flight at once, with room for two runs.
SpecRuns == InitRuns /\ [][NextRace]_vars

\* ----------------------------------------------------------------- slot map
\* The placements of the assignments: any non-empty string, the name of a
\* property of Object.prototype included.
Placements == { "HERO_CTA", "FOOTER_CTA", "constructor" }

\* The target URLs a LinkLibrary row may hold: a URL when created, and whatever
\* replaceAll(find, replace) leaves after a bulk replace, the empty string
\* included (replace is any string).
TargetUrls == { "", "https://a.example", "https://b.example" }

\* The lists of LinkAssignment rows (with their LinkLibrary row) a site is
\* loaded with.
LinkLists ==
    UNION { [1..n -> [placement : Placements, isEnabled : BOOLEAN, targetUrl : TargetUrls]]
              : n \in 0..MaxLinks }

\* What a property read gives when the object has no such property.
Undefined == "<undefined>"

\* The properties every object literal inherits, and what reading one gives.
ObjectPrototypeKeys == { "constructor" }
InheritedValue == "<function>"

\* const slotUrls: Record<string, string> = {}
EmptySlotUrls == [k \in {} |-> ""]

\* slotUrls[key]
Lookup(m, key) ==
    IF key \in DOMAIN m THEN m[key]
    ELSE IF key \in ObjectPrototypeKeys THEN InheritedValue
    ELSE Undefined

\* JavaScript's truthiness of a string or undefined.
Truthy(v) == v # Undefined /\ v # ""

\* slotUrls[key] = v
Put(m, key, v) == [k \in DOMAIN m \cup {key} |-> IF k = key THEN v ELSE m[k]]

\* a.linkLibrary?.targetUrl ?? "#": the row is always included and its URL is a
\* string.
OrHash(v) == IF v = Undefined THEN "#" ELSE v

RECURSIVE SlotUrlsFrom(_, _, _)
\* for (const a of site.links ?? []) { ... } from the i-th assignment on
SlotUrlsFrom(links, i, m) ==
    IF i > Len(links) THEN m
    ELSE LET a == links[i]
         IN IF ~a.isEnabled THEN SlotUrlsFrom(links, i + 1, m)
            ELSE IF Truthy(Lookup(m, a.placement)) THEN SlotUrlsFrom(links, i + 1, m)
            ELSE SlotUrlsFrom(links, i + 1, Put(m, a.placement, OrHash(a.targetUrl)))

SlotUrls(links) == SlotUrlsFrom(links, 1, EmptySlotUrls)

InitSlots ==
    /\ \E links \in LinkLists : calc = [op |-> "links", links |-> links,
                                        slotUrls |-> EmptySlotUrls]
    /\ EmptyStore([builds |-> 0, runs |-> 0, advances |-> 0, schedules |-> 0])

\* The renderer builds the slot map of the assignments it loaded.
BuildSlotUrls ==
    /\ calc.op = "links"
    /\ calc' = [calc EXCEPT !.op = "slotUrls", !.slotUrls = SlotUrls(calc.links)]
    /\ UNCHANGED << now, budget, siteStatus, pages, versions, builds, schedules, runs,
                    files, robots, sitemap, proc >>

\* An enabled assignment is disabled, and the site is loaded for the next
\* render.
DisableAssignment ==
    /\ calc.op = "slotUrls"
    /\ \E i \in DOMAIN calc.links :
          /\ calc.links[i].isEnabled
          /\ calc' = [op |-> "links",
                      links |-> [calc.links EXCEPT ![i].isEnabled = FALSE],
                      slotUrls |-> EmptySlotUrls]
    /\ UNCHANGED << now, budget, siteStatus, pages, versions, builds, schedules, runs,
                    files, robots, sitemap, proc >>

NextSlots ==
    \/ BuildSlotUrls
    \/ DisableAssignment

SpecSlots == InitSlots /\ [][NextSlots]_vars

\* ----------------------------------------------------------- block renderer
\* The block types the renderer knows, in the order of its code.
BlockTypes == << "hero", "content", "contacts", "faq", "footer_links" >>

\* The block types whose payload is a list of items.
ListTypes == { "faq", "footer_links" }

\* data.items of a block: missing (not an array), or an array of so many items.
Missing == -1
ItemCounts == { Missing, 0, 1 }

\* b.enabled: true, false, or the flag is absent.
EnabledFlags == { "true", "false", "absent" }

\* The blocks a version's block list may hold.
Blocks ==
    { b \in [type : Range(BlockTypes), enabled : EnabledFlags, items : ItemCounts] :
        b.type \notin ListTypes => b.items = Missing }

\* The orderings of the five block types, each block enabled and with an item.
AllTypeLists ==
    { [i \in 1..Len(BlockTypes) |->
         [type |-> BlockTypes[f[i]], enabled |-> "true",
          items |-> IF BlockTypes[f[i]] \in ListTypes THEN 1 ELSE Missing]] :
      f \in { g \in [1..Len(BlockTypes) -> 1..Len(BlockTypes)] :
                \A i, j \in 1..Len(BlockTypes) : g[i] = g[j] => i = j } }

\* The block lists pages are rendered from.
BlockLists == UNION { [1..n -> Blocks] : n \in 0..MaxBlocks } \cup AllTypeLists

\* The search that takes the first block of the type, whatever its flag.
FindBlock_AnyFlag(blocks, type) ==
    LET hits == { i \in DOMAIN blocks : blocks[i].type = type }
    IN IF hits = {} THEN 0 ELSE CHOOSE i \in hits : \A j \in hits : i <= j

\* blocks.find(b => b.type === type && b.enabled !== false): the position of
\* the block found, 0 when there is none.
FindBlock(blocks, type) ==
    LET hits == { i \in DOMAIN blocks :
                    blocks[i].type = type /\ blocks[i].enabled # "false" }
    IN IF hits = {} THEN 0 ELSE CHOOSE i \in hits : \A j \in hits : i <= j

\* Array.isArray(data?.items) ? data.items.length : 0
ItemsLength(b) == IF b.items = Missing THEN 0 ELSE b.items

\* The renderer that pushes a section for every block it finds.
SectionOf_AlwaysPushed(blocks, type) ==
    LET i == FindBlock(blocks, type)
    IN IF i = 0 THEN <<>>
       ELSE << [section |-> type, from |-> i, items |-> ItemsLength(blocks[i])] >>

\* The section pushed for the block at position i, if the code pushes one: hero,
\* content and contacts always; faq and footer_links when they have items.
SectionOf(blocks, type) ==
    LET i == FindBlock(blocks, type)
    IN IF i = 0 THEN <<>>
       ELSE IF type \in ListTypes /\ ItemsLength(blocks[i]) = 0 THEN <<>>
       ELSE << [section |-> type, from |-> i, items |-> ItemsLength(blocks[i])] >>

\* parts.push(`... Generated by Landing Factory (SSG v0.5) ...`)
Credit == [section |-> "credit", from |-> 0, items |-> 0]

\* renderBlocksWithSlots: the parts, in the order they are pushed.
renderBlocksWithSlots(blocks) ==
    SectionOf(blocks, "hero") \o SectionOf(blocks, "content")
       \o SectionOf(blocks, "contacts") \o SectionOf(blocks, "faq")
       \o SectionOf(blocks, "footer_links") \o << Credit >>

InitBlocks ==
    /\ \E blocks \in BlockLists : calc = [op |-> "blocks", blocks |-> blocks, parts |-> <<>>]
    /\ EmptyStore([builds |-> 0, runs |-> 0, advances |-> 0, schedules |-> 0])

\* The renderer renders the body of a page from its block list.
RenderBody ==
    /\ calc.op = "blocks"
    /\ calc' = [calc EXCEPT !.op = "body", !.parts = renderBlocksWithSlots(calc.blocks)]
    /\ UNCHANGED << now, budget, siteStatus, pages, versions, builds, schedules, runs,
                    files, robots, sitemap, proc >>

NextBlocks ==
    \/ RenderBody

SpecBlocks == InitBlocks /\ [][NextBlocks]_vars

\* ------------------------------------------------- cadence calculator calls
\* The times of day a call is made at: midnight, around the default hour, and
\* the last millisecond of the day.
TimesOfDay ==
    { 0, DefaultHour * 60 * MsPerMinute - 1, DefaultHour * 60 * MsPerMinute,
      DefaultHour * 60 * MsPerMinute + 1, MsPerDay - 1 }

\* The calls are made on each day of one week.
WeekDays == 7
CallTimes == { d * MsPerDay + tod : d \in 0..(WeekDays - 1), tod \in TimesOfDay }

\* The cadence documents of the calls, by cadence type: with and without each
\* field. cadenceJson is stored as sent, so dow is any integer: the ISO days
\* 1..7 and their neighbours -1, 0 and 8.
WeeklyJsons ==
    { CadenceJson(has, 0, dow, hour, minute, 0) :
        has \in SUBSET {"dow", "hour", "minute"}, dow \in -1..8, hour \in {0, 10, 23},
        minute \in {0, 30, 59} }

CronJsons ==
    { CadenceJson(has, 0, 0, 0, 0, minutes) :
        has \in SUBSET {"minutes"}, minutes \in {-3, 0, 1, 2, 4, 5, 6, 60, 90} }

EveryNDaysJsons ==
    { CadenceJson(has, n, 0, 0, 0, 0) : has \in SUBSET {"n"}, n \in {-1, 0, 1, 2, 7} }

CadenceCalls ==
    { [type |-> "weekly", json |-> j] : j \in WeeklyJsons }
       \cup { [type |-> "cron", json |-> j] : j \in CronJsons }
       \cup { [type |-> "every_n_days", json |-> j] : j \in EveryNDaysJsons }

InitCadence ==
    /\ \E t \in CallTimes, c \in CadenceCalls :
          calc = [op |-> "cadence", t |-> t, type |-> c.type, json |-> c.json, at |-> -1]
    /\ EmptyStore([builds |-> 0, runs |-> 0, advances |-> 0, schedules |-> 0])

\* const nextRunAt = computeNextRunAt(now, cadenceType, cadenceJson)
ComputeNextRunAt ==
    /\ calc.op = "cadence"
    /\ calc' = [calc EXCEPT !.op = "nextRunAt",
                            !.at = computeNextRunAt(calc.t, calc.type, calc.json)]
    /\ UNCHANGED << now, budget, siteStatus, pages, versions, builds, schedules, runs,
                    files, robots, sitemap, proc >>

NextCadence ==
    \/ ComputeNextRunAt

SpecCadence == InitCadence /\ [][NextCadence]_vars

\* ------------------------------------------------------------ theme compiler
\* A JavaScript string is the sequence of its characters.
Str(chars) == [kind |-> "string", chars |-> chars]

Digits == { "0", "1", "2", "3", "4", "5", "6", "7", "8", "9" }

\* The unit suffixes the pattern accepts: (px|rem|em|%)
LengthUnits == { << "p", "x" >>, << "r", "e", "m" >>, << "e", "m" >>, << "%" >> }

\* const map = { sm: "8px", md: "12px", lg: "14px", xl: "16px", "2xl": "20px" }
RadiusMap ==
    { << << "s", "m" >>, << "8", "p", "x" >> >>,
      << << "m", "d" >>, << "1", "2", "p", "x" >> >>,
      << << "l", "g" >>, << "1", "4", "p", "x" >> >>,
      << << "x", "l" >>, << "1", "6", "p", "x" >> >>,
      << << "2", "x", "l" >>, << "2", "0", "p", "x" >> >> }

\* The names of the properties an object literal inherits, among the inputs.
InheritedNames == { << "c", "o", "n", "s", "t", "r", "u", "c", "t", "o", "r" >> }

\* /^\d+(px|rem|em|%)$/.test(chars)
LooksLikeLength(chars) ==
    \E n \in 1..Len(chars) :
       /\ \A i \in 1..n : chars[i] \in Digits
       /\ SubSeq(chars, n + 1, Len(chars)) \in LengthUnits

\* map[v] ?? fallbackPx
MapOr(chars, fallbackPx) ==
    IF \E e \in RadiusMap : e[1] = chars
    THEN Str((CHOOSE e \in RadiusMap : e[1] = chars)[2])
    ELSE IF chars \in InheritedNames THEN [kind |-> "function", chars |-> <<>>]
    ELSE fallbackPx

radiusTokenToPx(v, fallbackPx) ==
    IF v.kind # "string" \/ v.chars = <<>> THEN fallbackPx
    ELSE IF LooksLikeLength(v.chars) THEN v
    ELSE MapOr(v.chars, fallbackPx)

\* The numerals and suffixes the input strings are made of.
Numerals ==
    { <<>>, << "0" >>, << "1", "2" >>, << "1", ".", "5" >>, << ".", "5" >>, << "-", "4" >>,
      << "1", "e", "3" >> }

Suffixes ==
    LengthUnits \cup { <<>>, << "p", "t" >>, << "v", "h" >>, << "P", "X" >>, << " ", "p", "x" >> }

\* The values of themeJson.radius.card and .button: strings made of a numeral
\* and a suffix, the tokens, other words, and values that are no strings.
RadiusInputs ==
    { Str(n \o u) : n \in Numerals, u \in Suffixes }
       \cup { Str(e[1]) : e \in RadiusMap }
       \cup { Str(w) : w \in InheritedNames \cup { << "S", "M" >>, << "f", "u", "l", "l" >> } }
       \cup { [kind |-> k, chars |-> <<>>] : k \in {"undefined", "null", "number", "object"} }

\* radiusTokenToPx(radius.card, "16px") and radiusTokenToPx(radius.button, "12px")
Fallbacks == { Str(<< "1", "6", "p", "x" >>), Str(<< "1", "2", "p", "x" >>) }

InitRadius ==
    /\ \E v \in RadiusInputs, f \in Fallbacks :
          calc = [op |-> "token", v |-> v, fallbackPx |-> f, out |-> f]
    /\ EmptyStore([builds |-> 0, runs |-> 0, advances |-> 0, schedules |-> 0])

\* const rCard = radiusTokenToPx(radius.card, "16px")
CompileRadius ==
    /\ calc.op = "token"
    /\ calc' = [calc EXCEPT !.op = "radius", !.out = radiusTokenToPx(calc.v, calc.fallbackPx)]
    /\ UNCHANGED << now, budget, siteStatus, pages, versions, builds, schedules, runs,
                    files, robots, sitemap, proc >>

NextRadius ==
    \/ CompileRadius

SpecRadius == InitRadius /\ [][NextRadius]_vars

\* ------------------------------------------------ index listing of a late run
\* The store after n - 1 runs of one schedule that requires approval, made a
\* millisecond apart on a new site, and the n-th run up to its call of
\* ensureIndexPage: pages are the home and contacts pages, the first post, the
\* index page, and the later posts.
ListingPostId(i) == IF i = 1 THEN 3 ELSE i + 3
ListingIndexId == 4

ListingPages(n) ==
    [i \in 1..(n + 3) |->
       IF i <= 2
       THEN [NewPage(DefaultTemplateRoutes[i].route, DefaultTemplateRoutes[i].pageType,
                     Seg("")) EXCEPT !.createdAt = 0]
       ELSE IF i = ListingIndexId
       THEN [NewPage(SectionBase("blog"), "index", Seg("")) EXCEPT !.createdAt = 1]
       ELSE LET t == IF i = 3 THEN 1 ELSE i - 3
            IN [NewPage(PostRoute("blog", t), "post", SlugSeg("blog", t))
                  EXCEPT !.createdAt = t]]

\* The listing the k-th run wrote: the newest posts among the first k.
ListingOfRun(k) ==
    [j \in 1..(IF k < IndexTake THEN k ELSE IndexTake) |-> ListingPostId(k - j + 1)]

ListingVersions(n) ==
    << NewVersion(1, 1, FALSE, "starter", <<>>), NewVersion(2, 1, FALSE, "starter", <<>>) >>
       \o [i \in 1..n |-> NewVersion(ListingPostId(i), 1, FALSE, "post", <<>>)]
       \o << NewVersion(ListingIndexId, 1, FALSE, "placeholder", <<>>) >>
       \o [k \in 1..(n - 1) |-> NewVersion(ListingIndexId, k + 1, FALSE, "index", ListingOfRun(k))]

ListingRuns(n) ==
    [k \in 1..n |->
       IF k < n
       THEN [scheduleId |-> 1, status |-> "success", logs |-> <<>>,
             postRoute |-> PostRoute("blog", k), published |-> 0,
             createdPageId |-> ListingPostId(k), createdAt |-> k]
       ELSE [scheduleId |-> 1, status |-> "running", logs |-> <<>>, postRoute |-> <<>>,
             published |-> 0, createdPageId |-> 0, createdAt |-> n]]

ListingSchedule(n) ==
    LET c == CHOOSE x \in CadenceInputs : TRUE
        s0 == [section |-> "blog", cadenceType |-> c.type, cadenceJson |-> c.json,
               requireApproval |-> TRUE, isEnabled |-> TRUE,
               nextRunAt |-> computeNextRunAt(0, c.type, c.json), lastRunAt |-> -1]
    IN IF n = 1 THEN s0 ELSE Rescheduled(s0, n - 1)

InitListing ==
    \E n \in 1..MaxPosts, late \in 0..1 :
       /\ calc = NoCalc
       /\ now = n + late
       /\ budget = [builds |-> 0, runs |-> 0, advances |-> 0, schedules |-> 0]
       /\ siteStatus = "draft"
       /\ pages = ListingPages(n)
       /\ versions = ListingVersions(n)
       /\ builds = <<>>
       /\ schedules = << ListingSchedule(n) >>
       /\ runs = ListingRuns(n)
       /\ files = {}
       /\ robots = FALSE
       /\ sitemap = <<>>
       /\ proc = [p \in Procs |->
             IF p = "h1"
             THEN [Idle EXCEPT !.kind = "runnow", !.pc = "run_index_read", !.sid = 1,
                               !.runId = n, !.postPage = ListingPostId(n),
                               !.route = PostRoute("blog", n),
                               !.indexPage = ListingIndexId]
             ELSE Idle]

\* The two steps of the run that read and write the index listing.
NextListing ==
    \/ RunIndexRead("h1")
    \/ RunIndexCreate("h1")

SpecListing == InitListing /\ [][NextListing]_vars

\* ------------------------------------------------------------- route files
\* The routes a site's pages may hold: template routes are strings of the
\* template's definitionJson, with or without a trailing slash, and the run
\* engine adds `/${section}` and `/${section}/${slug}`.
RouteInputs ==
    { RootRoute, << Seg("contacts") >>, << Seg("contacts"), Seg("") >>,
      SectionBase("blog"), << Seg("blog"), Seg("") >>, PostRoute("blog", 1) }

\* The pages of a site, by route: (siteId, route) is unique.
RouteLists ==
    { l \in UNION { [1..n -> RouteInputs] : n \in 0..MaxRoutes } :
        \A i, j \in DOMAIN l : l[i] = l[j] => i = j }

\* for (const page of site.pages): each page with its one version.
RoutePlan(routes) == [j \in DOMAIN routes |-> [page |-> j, route |-> routes[j], vid |-> j]]

InitRoutes ==
    /\ \E routes \in RouteLists :
          calc = [op |-> "routes", routes |-> routes, files |-> {}, sitemap |-> <<>>]
    /\ EmptyStore([builds |-> 0, runs |-> 0, advances |-> 0, schedules |-> 0])

\* One build into an empty output directory: the page loop and sitemap.xml.
RenderRoutes ==
    /\ calc.op = "routes"
    /\ calc' = [calc EXCEPT
          !.op = "written",
          !.files = WriteFiles({}, RoutePlan(calc.routes), Len(calc.routes)),
          !.sitemap = SitemapXml(SitemapRoutes(RoutePlan(calc.routes)))]
    /\ UNCHANGED << now, budget, siteStatus, pages, versions, builds, schedules, runs,
                    files, robots, sitemap, proc >>

NextRoutes ==
    \/ RenderRoutes

SpecRoutes == InitRoutes /\ [][NextRoutes]_vars

\* ------------------------------------------- a weekly schedule on its Sunday
\* The dow values of the weekly schedule: ISO Sunday, and Sunday as getDay()
\* numbers it.
WeeklyDows == { 0, 7 }

\* The schedule as POST /autopost/schedules stored it on the Monday at time 0:
\* no approval, enabled, due on the Sunday at the default time of day.
WeeklySchedule(dow) ==
    LET json == CadenceJson({"dow"}, 0, dow, 0, 0, 0)
    IN [section |-> "blog", cadenceType |-> "weekly", cadenceJson |-> json,
        requireApproval |-> FALSE, isEnabled |-> TRUE,
        nextRunAt |-> computeNextRunAt(0, "weekly", json), lastRunAt |-> -1]

\* The store on that Sunday, at the due time or half a minute after it: the
\* site with its template pages, and the schedule.
InitWeekly ==
    \E dow \in WeeklyDows, late \in { 0, 30000 } :
       /\ calc = NoCalc
       /\ now = WeeklySchedule(dow).nextRunAt + late
       /\ budget = [builds |-> WeeklyBuilds, runs |-> WeeklyRuns,
                    advances |-> WeeklyAdvance, schedules |-> 0]
       /\ siteStatus = "draft"
       /\ pages = [i \in 1..Len(DefaultTemplateRoutes) |->
             [NewPage(DefaultTemplateRoutes[i].route, DefaultTemplateRoutes[i].pageType,
                      Seg("")) EXCEPT !.createdAt = 0]]
       /\ versions = [i \in 1..Len(DefaultTemplateRoutes) |->
             NewVersion(i, 1, FALSE, "starter", <<>>)]
       /\ builds = <<>>
       /\ schedules = << WeeklySchedule(dow) >>
       /\ runs = <<>>
       /\ files = {}
       /\ robots = FALSE
       /\ sitemap = <<>>
       /\ proc = [p \in Procs |-> Idle]

\* Time passes and the scheduler's callback runs.
NextWeekly ==
    \/ Advance
    \/ TickSteps("h1")

SpecWeekly == InitWeekly /\ [][NextWeekly]_vars


\* -------------------------------------------------------------------- claims
PublishedVersions(pid) == { v \in VersionsOf(pid) : versions[v].isPublished }

\* The publish of slot p ends in this step with the given outcome.
PubEnds(p, outcome) == proc[p].pub = "active" /\ proc'[p].pub = outcome

\* C1: in every reachable state each Page has at most one PageVersion with
\* isPublished = true.
C1_AtMostOnePublished ==
    \A pid \in PageIds : Cardinality(PublishedVersions(pid)) <= 1

\* C2: at any time at most one render of the site is in flight.
C2_OneRenderInFlight ==
    Cardinality({ p \in Procs : Rendering(p) }) <= 1

\* C3: under every interleaving of publishes the site's Builds have distinct
\* buildNumbers, strictly increasing in creation order and starting at 1.
C3_BuildNumbersIncrease ==
    /\ builds # <<>> => builds[1].buildNumber = 1
    /\ \A a, b \in BuildIds : a < b => builds[a].buildNumber < builds[b].buildNumber

\* C4: when publishes run one after another, each publish of the site creates
\* exactly one Build, numbered the highest existing buildNumber plus 1, and 1
\* when the site has no Build, whatever the status of the earlier builds.
C4_SequentialBuildNumber ==
    [][ /\ Len(builds') # Len(builds) =>
              /\ Len(builds') = Len(builds) + 1
              /\ SubSeq(builds', 1, Len(builds)) = builds
              /\ builds'[Len(builds')].buildNumber =
                    IF builds = <<>> THEN 1
                    ELSE MaxOf({ builds[b].buildNumber : b \in BuildIds }) + 1
              /\ \E p \in Procs : /\ proc[p].pub = "active"
                                  /\ proc[p].buildId = 0
                                  /\ proc'[p].buildId = Len(builds')
        /\ \A p \in Procs :
              (proc[p].pub = "active" /\ proc'[p].pub # "active" /\ siteStatus # "none")
                 => proc'[p].buildId \in DOMAIN builds'
      ]_vars

\* C4's case: a third build follows a failed and a published one.
C4_Witness ==
    /\ Len(builds) = 3
    /\ builds[1].status = "failed"
    /\ builds[2].status = "published"
    /\ builds[3].buildNumber = 3

\* C5: the renderer renders, for every page, a version flagged isPublished if
\* the page has one and otherwise the version with the highest versionNumber; a
\* page with no version gets no file and no sitemap entry.
C5_AuthoritativeVersion ==
    [][ \A p \in Procs :
          /\ (proc[p].pc = "pub_fetch" /\ proc'[p].pc = "r_write") =>
                LET plan == proc'[p].plan
                IN /\ \A pid \in PageIds :
                         Cardinality({ j \in DOMAIN plan : plan[j].page = pid })
                            = IF VersionsOf(pid) = {} THEN 0 ELSE 1
                   /\ \A j \in DOMAIN plan :
                         LET pid == plan[j].page
                             v == plan[j].vid
                         IN /\ v \in VersionsOf(pid)
                            /\ PublishedVersions(pid) # {} => versions[v].isPublished
                            /\ PublishedVersions(pid) = {} =>
                                  \A w \in VersionsOf(pid) :
                                     versions[w].versionNumber <= versions[v].versionNumber
          /\ (proc[p].pc = "r_write" /\ proc'[p].pc # "r_write") =>
                LET plan == proc[p].plan
                IN /\ \A f \in files' \ files :
                         /\ VersionsOf(f.page) # {}
                         /\ \E j \in DOMAIN plan :
                               f.page = plan[j].page /\ f.vid = plan[j].vid
                   /\ proc'[p].pc = "r_ready" =>
                         /\ \A j \in DOMAIN plan :
                               \E f \in files' :
                                  f.page = plan[j].page /\ f.vid = plan[j].vid
                         /\ Len(sitemap') = Len(plan)
                         /\ \A j \in DOMAIN plan :
                               sitemap'[j].path = IF plan[j].route = RootRoute THEN <<>>
                                             ELSE plan[j].route
      ]_vars

\* C5's case: a render in flight has skipped a page that has no version, holds
\* the published version of one page and, for a page with no published version,
\* its highest-numbered one.
C5_Witness ==
    \E p \in Procs :
       /\ proc[p].pc = "r_write"
       /\ \E pid \in PageIds :
             /\ VersionsOf(pid) = {}
             /\ \A j \in DOMAIN proc[p].plan : proc[p].plan[j].page # pid
       /\ \E j \in DOMAIN proc[p].plan : versions[proc[p].plan[j].vid].isPublished
       /\ \E j \in DOMAIN proc[p].plan :
             /\ PublishedVersions(proc[p].plan[j].page) = {}
             /\ proc[p].plan[j].vid \in LatestCands(proc[p].plan[j].page)

\* C6: after a successful publish the file of each page that has versions is
\* rendered from the page's highest-numbered version.
C6_FilesFromLatest ==
    \A p \in Procs :
       (proc[p].pub = "ok" /\ proc[p].pc \in {"done", "run_success"}) =>
          \A pid \in PageIds :
             VersionsOf(pid) # {} =>
                \E f \in files : f.page = pid /\ f.vid \in LatestCands(pid)

\* C7 as written: when the renderer answers success, the publish ends with its
\* Build published with the artifact path, the Site published, and every page
\* that has a version published.
C7_AllPagesPublished ==
    [][ \A p \in Procs :
          PubEnds(p, "ok") =>
             /\ builds'[proc[p].buildId].status = "published"
             /\ builds'[proc[p].buildId].artifactPath = proc[p].resp.artifactPath
             /\ siteStatus' = "published"
             /\ \A pid \in DOMAIN pages' :
                   (\E v \in DOMAIN versions' : versions'[v].pageId = pid)
                      => pages'[pid].status = "published"
      ]_vars

\* C7 amended: ... and every page that had a version when the publish loaded
\* the site's pages is published.
C7_LoadedPagesPublished ==
    [][ \A p \in Procs :
          PubEnds(p, "ok") =>
             /\ builds'[proc[p].buildId].status = "published"
             /\ builds'[proc[p].buildId].artifactPath = proc[p].resp.artifactPath
             /\ proc[p].resp.artifactPath = OutDir
             /\ siteStatus' = "published"
             /\ \A pid \in proc[p].had : pages'[pid].status = "published"
      ]_vars

\* C7's case: a publish has ended in success while a page created during it
\* has a version and is still a draft.
C7_Witness ==
    \E p \in Procs :
       /\ proc[p].pub = "ok"
       /\ builds[proc[p].buildId].status = "published"
       /\ \E pid \in PageIds : VersionsOf(pid) # {} /\ pages[pid].status = "draft"
       /\ \E pid \in PageIds : pages[pid].status = "published"

\* C8: when the renderer answers non-success, the publish marks its Build failed
\* with the response text, raises an error to its caller and leaves the Site
\* status as it was; no step of a publish but its successful end writes it.
C8_RendererFailure ==
    [][ /\ \A p \in Procs :
              PubEnds(p, "renderer_error") =>
                 /\ ~proc[p].resp.ok
                 /\ builds'[proc[p].buildId].status = "failed"
                 /\ builds'[proc[p].buildId].logs = proc[p].resp.text
                 /\ proc'[p].err = RendererError(proc[p].resp.text)
                 /\ IF proc[p].kind = "manual"
                    THEN proc'[p].pc = "done" /\ proc'[p].result = "error"
                    ELSE proc'[p].pc = "run_catch"
                 /\ siteStatus' = siteStatus
        /\ \A p \in Procs :
              (proc[p].pc = "pub_resp" /\ ~proc[p].resp.ok) => ~PubEnds(p, "ok")
        /\ siteStatus' # siteStatus =>
              \/ siteStatus = "none"
              \/ \E p \in Procs : PubEnds(p, "ok")
      ]_vars

\* C8's case: a publish has ended on the renderer's error, its Build failed with
\* the renderer's text, on a site an earlier publish had published.
C8_Witness ==
    \E p \in Procs :
       /\ proc[p].pub = "renderer_error"
       /\ builds[proc[p].buildId].status = "failed"
       /\ builds[proc[p].buildId].logs = "fs error"
       /\ siteStatus = "published"

\* C9: when the render call itself fails, the Build of that publish is marked
\* failed: no Build is queued or ready once its publish has ended.
C9_NoBuildLeftPending ==
    \A b \in BuildIds :
       (\A p \in Procs : ~(proc[p].buildId = b /\ proc[p].pub = "active"))
          => builds[b].status \in {"published", "failed"}

\* C10: when a run ends, in success or in failure, the schedule's nextRunAt has
\* been recomputed from the time of that run.
C10_NextRunRecomputed ==
    [][ \A p \in Procs :
          (proc[p].pc \in {"run_success", "run_catch"} /\ proc'[p].pc # proc[p].pc) =>
             LET s == schedules'[proc[p].sid]
             IN /\ proc[p].cadenceAt >= 0
                /\ runs[proc[p].runId].createdAt <= proc[p].cadenceAt
                /\ s.nextRunAt >= computeNextRunAt(proc[p].cadenceAt, s.cadenceType,
                                                   s.cadenceJson)
      ]_vars

\* C11: within one tick, when the run of a due schedule throws, the tick goes
\* on to the next schedule of its batch.
C11_TickIsolatesFailure ==
    [][ \A p \in Procs :
          ( /\ proc[p].kind = "tick"
            /\ proc[p].pc = "run_catch"
            /\ proc[p].at < Len(proc[p].due)
            /\ proc'[p] # proc[p] ) =>
             /\ proc'[p].kind = "tick"
             /\ proc'[p].pc = "run_load"
             /\ proc'[p].sid = proc[p].due[proc[p].at + 1]
      ]_vars

\* Schedule s is enabled and due.
Due(s) ==
    /\ s \in DOMAIN schedules
    /\ schedules[s].isEnabled
    /\ schedules[s].nextRunAt <= now

\* The run engine has created the AutopostRun of a run of schedule s.
RunStarted(s) == \E p \in Procs : proc[p].sid = s /\ proc[p].pc = "run_post"

\* The bound on pages and builds leaves room for a run of every schedule.
HasRoom == LoopRoom.runs >= LoopSchedules /\ LoopRoom.builds >= LoopSchedules

\* C12: under a fair scheduler loop every enabled schedule that is due is
\* eventually run, whatever happens to the other due schedules (as long as the
\* bound on pages and builds is not what stops it).
C12_DueEventuallyRun ==
    \A s \in 1..LoopSchedules : (Due(s) /\ HasRoom) ~> (RunStarted(s) \/ ~HasRoom)

\* A run row that has reached success or failed.
Ended(r) == r.status \in {"success", "failed"}

\* C13: each invocation of the run engine on an enabled schedule creates exactly
\* one AutopostRun, in status running; when the invocation returns or throws
\* the row is success or failed; a row in success or failed never changes again.
C13_RunStateMachine ==
    [][ /\ \A p \in Procs :
              (proc[p].pc = "run_load" /\ proc'[p] # proc[p]
                 /\ schedules[proc[p].sid].isEnabled) =>
                 /\ Len(runs') = Len(runs) + 1
                 /\ proc'[p].runId = Len(runs')
                 /\ runs'[Len(runs')].status = "running"
                 /\ runs'[Len(runs')].scheduleId = proc[p].sid
        /\ Len(runs') # Len(runs) =>
              /\ Len(runs') = Len(runs) + 1
              /\ \E p \in Procs : proc[p].runId = 0 /\ proc'[p].runId = Len(runs')
        /\ \A p \in Procs :
              (proc[p].runId # 0 /\ proc'[p].pc \in {"done", "run_load", "idle"}) =>
                 Ended(runs'[proc[p].runId])
        /\ \A r \in DOMAIN runs : Ended(runs[r]) => runs'[r] = runs[r]
      ]_vars

\* C13's case: two runs have ended, one in success and one in failed.
C13_Witness ==
    /\ \E r \in DOMAIN runs : runs[r].status = "success"
    /\ \E r \in DOMAIN runs : runs[r].status = "failed"
    /\ \A p \in Procs : proc[p].kind = "idle"

\* The steps of a run from post generation through the nested publish.
RunStepPcs ==
    {"run_post", "run_postver", "run_ensure", "run_ensure_create", "run_ensure_ver",
     "run_index_read", "run_index_create", "run_cadence", "pub_load", "pub_promote",
     "pub_lastbuild", "pub_create", "pub_fetch", "r_write", "r_ready", "pub_resp"}

\* C14: a run is marked failed with the error message, and the error re-raised,
\* exactly when one of its steps from post generation through the nested
\* publish throws; it is marked success, with the post route, the publish result
\* and createdPageId, exactly when all those steps completed.
C14_RunOutcome ==
    [][ \A p \in Procs :
          /\ (proc[p].pc # "run_catch" /\ proc'[p].pc = "run_catch") =>
                /\ proc[p].pc \in RunStepPcs
                /\ proc'[p].err # <<>>
          /\ (proc[p].pc = "run_catch" /\ proc'[p] # proc[p]) =>
                /\ runs'[proc[p].runId].status = "failed"
                /\ runs'[proc[p].runId].logs = proc[p].err
                /\ proc'[p].pc = "done"
                /\ proc'[p].result = "error"
          /\ (proc[p].pc # "run_success" /\ proc'[p].pc = "run_success") =>
                /\ proc[p].postPage \in PostPages
                /\ \E v \in VersionsOf(proc[p].postPage) : versions[v].kind = "post"
                /\ \E v \in VersionIds :
                      /\ versions[v].kind = "index"
                      /\ \E j \in DOMAIN versions[v].list :
                            versions[v].list[j] = proc[p].postPage
                /\ proc'[p].cadenceAt >= 0
                /\ IF schedules[proc[p].sid].requireApproval
                   THEN proc[p].pc = "run_cadence" /\ proc'[p].buildId = 0
                   ELSE /\ proc'[p].pub = "ok"
                        /\ builds'[proc'[p].buildId].status = "published"
          /\ (proc[p].pc = "run_success" /\ proc'[p] # proc[p]) =>
                LET r == runs'[proc[p].runId]
                IN /\ r.status = "success"
                   /\ r.postRoute = pages[proc[p].postPage].route
                   /\ r.published = proc[p].buildId
                   /\ r.createdPageId = proc[p].postPage
                   /\ proc'[p].pc = "done" => proc'[p].result = "ok"
      ]_vars

\* C14's case: a run has ended in success with its build and its page, and
\* another has failed on the renderer's error.
C14_Witness ==
    /\ \E r \in DOMAIN runs :
          /\ runs[r].status = "success"
          /\ runs[r].published # 0
          /\ runs[r].createdPageId \in PostPages
    /\ \E r \in DOMAIN runs :
          /\ runs[r].status = "failed"
          /\ runs[r].logs = RendererError("fs error")

\* C15: the run engine invoked on a schedule with isEnabled = false answers a
\* no-op and changes nothing: no AutopostRun, Page, PageVersion or Build is
\* created and the schedule keeps its nextRunAt and lastRunAt.
C15_DisabledIsNoOp ==
    [][ \A p \in Procs :
          ( /\ proc[p].pc = "run_load"
            /\ ~schedules[proc[p].sid].isEnabled
            /\ proc'[p] # proc[p] ) =>
             /\ runs' = runs
             /\ pages' = pages
             /\ versions' = versions
             /\ builds' = builds
             /\ schedules' = schedules
             /\ siteStatus' = siteStatus
             /\ files' = files
             /\ proc'[p].pc = "done"
             /\ proc'[p].result = "noop"
             /\ proc'[p].runId = 0
      ]_vars

\* C15's case: run-now on a disabled schedule has answered its no-op.
C15_Witness ==
    \E p \in Procs :
       /\ proc[p].kind = "runnow"
       /\ proc[p].pc = "done"
       /\ proc[p].result = "noop"
       /\ ~schedules[proc[p].sid].isEnabled
       /\ schedules[proc[p].sid].lastRunAt = -1
       /\ runs = <<>>

\* The listing ids holds every post page, newest first, up to IndexTake.
ListsAllNewestFirst(ids) ==
    /\ Len(ids) = (IF Cardinality(PostPages) < IndexTake THEN Cardinality(PostPages)
                   ELSE IndexTake)
    /\ \A a, b \in DOMAIN ids : a < b => pages[ids[a]].createdAt > pages[ids[b]].createdAt
    /\ \A a \in DOMAIN ids : ids[a] \in PostPages

\* C16: every run made after another creates its post page, under a route no
\* other page has (no run fails because its route is taken), and the index
\* version it writes lists all the post pages, newest first, up to 30.
C16_SuccessiveRunsDistinct ==
    [][ /\ \A a, b \in DOMAIN pages' : pages'[a].route = pages'[b].route => a = b
        /\ \A p \in Procs :
              (proc[p].pc = "run_post" /\ proc'[p].pc = "run_catch") =>
                 proc'[p].err # << "Unique constraint failed" >>
        /\ \A p \in Procs :
              (proc[p].pc = "run_index_create" /\ proc'[p] # proc[p]) =>
                 ListsAllNewestFirst(versions'[Len(versions')].list)
      ]_vars


\* C17: ensureIndexPage is idempotent. A call that finds a Page with the
\* section's route returns that page's id and writes nothing; only a call that
\* finds none creates the Page and then its placeholder version 1; every call
\* returns a page id, calls of runs in flight at once included; and the store
\* never holds two Pages with the route or two placeholder versions of one
\* index page.
C17_EnsureIndexIdempotent ==
    [][ /\ \A a, b \in DOMAIN pages' :
              (pages'[a].pageType = "index" /\ pages'[a].route = pages'[b].route) => a = b
        /\ \A v, w \in DOMAIN versions' :
              ( /\ versions'[v].kind = "placeholder"
                /\ versions'[w].kind = "placeholder"
                /\ versions'[v].pageId = versions'[w].pageId ) => v = w
        /\ \A p \in Procs :
              (proc[p].pc = "run_ensure" /\ proc'[p] # proc[p]) =>
                 LET have == PagesWithRoute(SectionBase(schedules[proc[p].sid].section))
                 IN IF have # {}
                    THEN /\ proc'[p].pc = "run_index_read"
                         /\ have = { proc'[p].indexPage }
                         /\ pages' = pages
                         /\ versions' = versions
                    ELSE /\ proc'[p].pc = "run_ensure_create"
                         /\ pages' = pages
                         /\ versions' = versions
        /\ \A p \in Procs :
              (proc[p].pc = "run_ensure_create" /\ proc'[p] # proc[p]) =>
                 /\ proc'[p].pc = "run_ensure_ver"
                 /\ Len(pages') = Len(pages) + 1
                 /\ proc'[p].indexPage = Len(pages')
                 /\ pages'[Len(pages')].route = SectionBase(schedules[proc[p].sid].section)
        /\ \A p \in Procs :
              (proc[p].pc = "run_ensure_ver" /\ proc'[p] # proc[p]) =>
                 /\ VersionsOf(proc[p].indexPage) = {}
                 /\ Len(versions') = Len(versions) + 1
                 /\ versions'[Len(versions')] =
                       NewVersion(proc[p].indexPage, 1, FALSE, "placeholder", <<>>)
                 /\ proc'[p].pc = "run_index_read"
                 /\ proc'[p].indexPage = proc[p].indexPage
      ]_vars

\* The positions of the enabled assignments of a placement.
EnabledAt(links, placement) ==
    { i \in DOMAIN links : links[i].isEnabled /\ links[i].placement = placement }

\* C18: for every ordered list of assignments and every target URL value, the
\* slot map holds for each placement the target URL of the first enabled
\* assignment of that placement, and no entry for a placement with no enabled
\* assignment (so that a disabled assignment never contributes and disabling
\* the first enabled assignment promotes the next one).
C18_FirstEnabledWins ==
    calc.op = "slotUrls" =>
       \A placement \in Placements :
          LET en == EnabledAt(calc.links, placement)
          IN IF en = {}
             THEN placement \notin DOMAIN calc.slotUrls
             ELSE /\ placement \in DOMAIN calc.slotUrls
                  /\ calc.slotUrls[placement] =
                        calc.links[CHOOSE i \in en : \A j \in en : i <= j].targetUrl

\* The pages a render plan writes a file for.
PlanPages(plan) == { plan[j].page : j \in DOMAIN plan }

\* The URL path of a route: nothing for "/", the route otherwise.
UrlPath(route) == IF route = RootRoute THEN <<>> ELSE route

\* C19: when a build has written its files, sitemap.xml holds exactly one
\* <url><loc> entry for each page whose file the build wrote, the entry is the
\* https URL of the page's route under the site's domain (the bare domain for
\* "/"), a page the build skipped has no entry, and the page count the renderer
\* returns is the number of entries.
C19_SitemapMatchesWritten ==
    [][ \A p \in Procs :
          (proc[p].pc = "r_write" /\ proc'[p].pc = "r_ready") =>
             LET plan == proc[p].plan
             IN /\ \A pid \in DOMAIN pages' :
                      Cardinality({ j \in DOMAIN sitemap' :
                                      sitemap'[j] = [scheme |-> "https", host |-> DomainName,
                                                     path |-> UrlPath(pages'[pid].route)] })
                         = IF pid \in PlanPages(plan) THEN 1 ELSE 0
                /\ \A j \in DOMAIN sitemap' :
                      \E pid \in PlanPages(plan) :
                         /\ sitemap'[j].path = UrlPath(pages'[pid].route)
                         /\ \E f \in files' :
                               f.page = pid /\ f.dir = routeToFile(pages'[pid].route)
                /\ proc'[p].resp.ok
                /\ proc'[p].resp.pages = Len(sitemap')
      ]_vars

\* C19's case: a build has written sitemap.xml with an entry for "/" and one
\* for another page, and has skipped a page that had no version.
C19_Witness ==
    \E p \in Procs :
       /\ proc[p].pc = "r_ready"
       /\ proc[p].resp.pages = Len(sitemap)
       /\ \E j \in DOMAIN sitemap : sitemap[j].path = <<>>
       /\ \E j \in DOMAIN sitemap : sitemap[j].path # <<>>
       /\ \E pid \in PageIds :
             /\ VersionsOf(pid) = {}
             /\ \A j \in DOMAIN sitemap : sitemap[j].path # pages[pid].route

\* published.contentJson: what the page file is rendered from.
ContentJson(v) == [kind |-> versions[v].kind, list |-> versions[v].list]

\* The slot keys an href can name: /^\{\{slot:([A-Z0-9_\-]+)\}\}$/
SlotKeys == { "HERO_CTA", "FOOTER_CTA" }

\* resolveSlotHref of the href {{slot:key}}: slotUrls[key] ?? "#"
ResolveSlotHref(key, m) ==
    LET v == Lookup(m, key) IN IF v = Undefined THEN "#" ELSE v

\* The orders in which the store may return n rows.
Orders(n) == { f \in [1..n -> 1..n] : \A i, j \in 1..n : f[i] = f[j] => i = j }

\* The rows in the order f.
Reordered(rows, f) == [i \in 1..Len(rows) |-> rows[f[i]]]

\* C20: two renders of the same stored state write the same bytes whatever the
\* order in which the store returns a page's versions or the site's link
\* assignments: every version the selection may yield for a page has the same
\* content, and every order of the assignments resolves every slot to the same
\* URL.
C20_RenderDeterministic ==
    /\ \A pid \in PageIds :
          \A v, w \in Authoritative(pid) : ContentJson(v) = ContentJson(w)
    /\ calc.op = "slotUrls" =>
          \A f \in Orders(Len(calc.links)) :
             \A key \in SlotKeys :
                ResolveSlotHref(key, SlotUrls(Reordered(calc.links, f)))
                   = ResolveSlotHref(key, calc.slotUrls)

\* C21: the first PageVersion a run creates for its post page has versionNumber
\* 1 and isPublished equal to the negation of the schedule's requireApproval.
C21_PostVersionOne ==
    [][ \A p \in Procs :
          (proc[p].pc = "run_postver" /\ proc'[p] # proc[p]) =>
             /\ VersionsOf(proc[p].postPage) = {}
             /\ Len(versions') = Len(versions) + 1
             /\ SubSeq(versions', 1, Len(versions)) = versions
             /\ LET v == versions'[Len(versions')]
                IN /\ v.pageId = proc[p].postPage
                   /\ pages[v.pageId].pageType = "post"
                   /\ v.versionNumber = 1
                   /\ v.isPublished = ~schedules[proc[p].sid].requireApproval
      ]_vars

\* C21's case: a run of a schedule that does not require approval has created
\* its post's version 1, published.
C21_Witness ==
    \E p \in Procs :
       /\ proc[p].pc = "run_ensure"
       /\ ~schedules[proc[p].sid].requireApproval
       /\ \E v \in VersionsOf(proc[p].postPage) :
             versions[v].versionNumber = 1 /\ versions[v].isPublished
       /\ Cardinality(VersionsOf(proc[p].postPage)) = 1

\* The positions of a slot inside the publish pipeline and the renderer.
PubPcs ==
    {"pub_load", "pub_promote", "pub_lastbuild", "pub_create", "pub_fetch", "r_write",
     "r_ready", "pub_resp"}

\* Slot p holds a run of the run engine (run-now or a tick).
InRun(p) == proc[p].kind \in {"runnow", "tick"} /\ proc[p].pc \in RunStepPcs \cup {"run_success"}

\* C22: a run invokes the publish pipeline if and only if its schedule's
\* requireApproval is false. With requireApproval true no step of the run
\* creates or changes a Build or changes the Site status, and the run records a
\* null publish result; with requireApproval false the run goes from the
\* cadence update into the pipeline, and the result it records is the
\* pipeline's (the build the pipeline published).
C22_PublishIffNoApproval ==
    [][ \A p \in Procs :
          (InRun(p) /\ proc'[p] # proc[p]) =>
             IF schedules[proc[p].sid].requireApproval
             THEN /\ builds' = builds
                  /\ siteStatus' = siteStatus
                  /\ proc[p].pc \notin PubPcs
                  /\ proc'[p].pc \notin PubPcs
                  /\ proc[p].pc = "run_success" => runs'[proc[p].runId].published = 0
             ELSE /\ proc[p].pc = "run_cadence" => proc'[p].pc = "pub_load"
                  /\ proc'[p].pc = "run_success" => proc[p].pc = "pub_resp"
                  /\ proc[p].pc = "run_success" =>
                        LET b == runs'[proc[p].runId].published
                        IN /\ b \in BuildIds
                           /\ b = proc[p].buildId
                           /\ builds[b].status = "published"
                           /\ siteStatus = "published"
      ]_vars

\* C22's case: a run of a schedule that requires approval has ended in success
\* with a null publish result, and the site has no Build and is still a draft.
C22_Witness ==
    /\ builds = <<>>
    /\ siteStatus = "draft"
    /\ \E r \in DOMAIN runs :
          /\ runs[r].status = "success"
          /\ runs[r].published = 0
          /\ schedules[runs[r].scheduleId].requireApproval

\* C23: the sections of a rendered page appear in the declaration order of
\* their blocks in the block list, for every ordering of the block types.
C23_DeclarationOrder ==
    calc.op = "body" =>
       \A a, b \in DOMAIN calc.parts :
          ( /\ a < b
            /\ calc.parts[a].section # "credit"
            /\ calc.parts[b].section # "credit" ) =>
             calc.parts[a].from < calc.parts[b].from

\* The positions of the blocks of a type that count as enabled.
EnabledBlocks(blocks, type) ==
    { i \in DOMAIN blocks : blocks[i].type = type /\ blocks[i].enabled # "false" }

\* The parts of the body that are sections of a type.
PartsOf(parts, type) == { a \in DOMAIN parts : parts[a].section = type }

\* C24: when the enabled faq block of a page has an empty or missing item list
\* the body has no FAQ section at all, the other blocks still render (hero,
\* content and contacts when enabled, footer_links when it has items), and the
\* generator credit is the last part of every body.
C24_EmptyFaqOmitted ==
    calc.op = "body" =>
       LET blocks == calc.blocks
           parts == calc.parts
           faqs == EnabledBlocks(blocks, "faq")
           footers == EnabledBlocks(blocks, "footer_links")
       IN /\ parts # <<>>
          /\ parts[Len(parts)].section = "credit"
          /\ Cardinality(PartsOf(parts, "credit")) = 1
          /\ ( /\ faqs # {}
               /\ blocks[CHOOSE i \in faqs : \A j \in faqs : i <= j].items \in {Missing, 0} ) =>
                /\ PartsOf(parts, "faq") = {}
                /\ \A type \in {"hero", "content", "contacts"} :
                      Cardinality(PartsOf(parts, type))
                         = IF EnabledBlocks(blocks, type) # {} THEN 1 ELSE 0
                /\ Cardinality(PartsOf(parts, "footer_links"))
                      = IF /\ footers # {}
                           /\ blocks[CHOOSE i \in footers : \A j \in footers : i <= j].items >= 1
                        THEN 1 ELSE 0

\* C24's case: a body rendered from a hero, an enabled faq with an empty item
\* list and a footer with an item: hero, footer and credit, no FAQ.
C24_Witness ==
    /\ calc.op = "body"
    /\ \E i \in DOMAIN calc.blocks :
          /\ calc.blocks[i].type = "faq"
          /\ calc.blocks[i].enabled # "false"
          /\ calc.blocks[i].items = 0
    /\ PartsOf(calc.parts, "faq") = {}
    /\ PartsOf(calc.parts, "hero") # {}
    /\ PartsOf(calc.parts, "footer_links") # {}
    /\ calc.parts[Len(calc.parts)] = Credit

\* The calendar day of a time, and its ISO day of week (Monday = 1; time 0 is a
\* Monday).
DayOf(t) == t \div MsPerDay
IsoDow(t) == (DayOf(t) % 7) + 1

\* C25: for cadence weekly with a target dow in 1..7 the computed run time is
\* on the target day of week, between 1 and 7 calendar days after the day of
\* the call (7 exactly when the target day is the day of the call), at
\* hour:minute:00.000 (hour 10 and minute 0 when absent).
C25_WeeklyNextWeekday ==
    ( /\ calc.op = "nextRunAt"
      /\ calc.type = "weekly"
      /\ "dow" \in calc.json.has
      /\ calc.json.dow \in 1..7 ) =>
       LET hour == IF "hour" \in calc.json.has THEN calc.json.hour ELSE 10
           minute == IF "minute" \in calc.json.has THEN calc.json.minute ELSE 0
           days == DayOf(calc.at) - DayOf(calc.t)
       IN /\ IsoDow(calc.at) = calc.json.dow
          /\ days \in 1..7
          /\ (days = 7) <=> (calc.json.dow = IsoDow(calc.t))
          /\ calc.at % MsPerDay = hour * 3600000 + minute * 60000

\* C25's case: a call on the target day itself, after the target time of day,
\* gives the same day of the next week at 23:59:00.000.
C25_Witness ==
    /\ calc.op = "nextRunAt"
    /\ calc.type = "weekly"
    /\ calc.json.has = {"dow", "hour", "minute"}
    /\ calc.json.dow = IsoDow(calc.t)
    /\ calc.json.hour = 23 /\ calc.json.minute = 59
    /\ calc.t % MsPerDay = MsPerDay - 1
    /\ calc.at = (DayOf(calc.t) + 7) * MsPerDay + 23 * 3600000 + 59 * 60000

\* C26: for cadence cron the computed run time is the time of the call plus
\* max(5, minutes) minutes, minutes being 60 when absent; every minutes value
\* below 5, zero and negatives included, gives the time of the call plus 5
\* minutes exactly.
C26_CronFloor ==
    (calc.op = "nextRunAt" /\ calc.type = "cron") =>
       LET minutes == IF "minutes" \in calc.json.has THEN calc.json.minutes ELSE 60
       IN /\ calc.at = calc.t + (IF minutes >= 5 THEN minutes ELSE 5) * 60000
          /\ minutes < 5 => calc.at = calc.t + 300000

\* C26's case: minutes is -3 and the run time is the call plus 5 minutes.
C26_Witness ==
    /\ calc.op = "nextRunAt"
    /\ calc.type = "cron"
    /\ calc.json.has = {"minutes"}
    /\ calc.json.minutes = -3
    /\ calc.at = calc.t + 300000

\* A decimal number: an optional sign, digits with at most one point, at least
\* one digit.
IsNumber(chars) ==
    LET body == IF chars # <<>> /\ chars[1] = "-" THEN Tail(chars) ELSE chars
    IN /\ \A i \in DOMAIN body : body[i] \in Digits \cup { "." }
       /\ \E i \in DOMAIN body : body[i] \in Digits
       /\ Cardinality({ i \in DOMAIN body : body[i] = "." }) <= 1

\* A literal CSS length: a number followed by px, rem, em or %.
IsCssLength(chars) ==
    \E n \in 1..Len(chars) :
       IsNumber(SubSeq(chars, 1, n)) /\ SubSeq(chars, n + 1, Len(chars)) \in LengthUnits

\* C27: radiusTokenToPx gives the table value for sm, md, lg, xl and 2xl, the
\* input itself for every literal CSS length, and the caller's fallback for
\* every other input, non-strings and the empty string included.
C27_RadiusToken ==
    calc.op = "radius" =>
       IF calc.v.kind = "string" /\ calc.v.chars = << "s", "m" >>
       THEN calc.out = Str(<< "8", "p", "x" >>)
       ELSE IF calc.v.kind = "string" /\ calc.v.chars = << "m", "d" >>
       THEN calc.out = Str(<< "1", "2", "p", "x" >>)
       ELSE IF calc.v.kind = "string" /\ calc.v.chars = << "l", "g" >>
       THEN calc.out = Str(<< "1", "4", "p", "x" >>)
       ELSE IF calc.v.kind = "string" /\ calc.v.chars = << "x", "l" >>
       THEN calc.out = Str(<< "1", "6", "p", "x" >>)
       ELSE IF calc.v.kind = "string" /\ calc.v.chars = << "2", "x", "l" >>
       THEN calc.out = Str(<< "2", "0", "p", "x" >>)
       ELSE IF calc.v.kind = "string" /\ IsCssLength(calc.v.chars)
       THEN calc.out = calc.v
       ELSE calc.out = calc.fallbackPx

\* The status changes a Build may make.
BuildMoves == { << "queued", "ready" >>, << "ready", "published" >>, << "queued", "failed" >> }

\* C28: a Build is created queued and its status only moves queued -> ready ->
\* published or queued -> failed, so that a published or failed Build never
\* changes status again; it is set ready by its renderer only after the page
\* files, robots.txt and sitemap.xml of that build were written, and set
\* published by its pipeline only after the renderer answered success.
C28_BuildStatusMoves ==
    [][ /\ \A b \in DOMAIN builds' \ DOMAIN builds : builds'[b].status = "queued"
        /\ DOMAIN builds \subseteq DOMAIN builds'
        /\ \A b \in DOMAIN builds :
              builds'[b].status # builds[b].status =>
                 /\ << builds[b].status, builds'[b].status >> \in BuildMoves
                 /\ builds'[b].status = "ready" =>
                       \E p \in Procs :
                          /\ proc[p].pc = "r_ready"
                          /\ proc[p].buildId = b
                          /\ proc[p].resp.ok
                          /\ robots
                          /\ proc[p].resp.pages <= Cardinality(files)
                 /\ builds'[b].status = "published" =>
                       \E p \in Procs :
                          /\ proc[p].pc = "pub_resp"
                          /\ proc[p].buildId = b
                          /\ proc[p].resp.ok
                 /\ builds'[b].status = "failed" =>
                       \E p \in Procs :
                          /\ proc[p].pc = "pub_resp"
                          /\ proc[p].buildId = b
                          /\ ~proc[p].resp.ok
      ]_vars

\* C28's case: one Build went queued -> failed and another queued -> ready ->
\* published.
C28_Witness ==
    /\ \E b \in BuildIds : builds[b].status = "failed"
    /\ \E b \in BuildIds : builds[b].status = "published"
    /\ \A p \in Procs : proc[p].kind = "idle"

\* The version numbers the versions of a page carry.
VersionNumbers(pid) == { versions[v].versionNumber : v \in VersionsOf(pid) }

\* C29: whatever the sequence and interleaving of runs, the versions of a
\* section index page carry pairwise distinct version numbers, and these are
\* 1, 2, 3, ...: each new index version is numbered the prior maximum plus 1.
C29_IndexVersionsDistinct ==
    \A pid \in PageIds :
       pages[pid].pageType = "index" =>
          /\ \A v, w \in VersionsOf(pid) :
                versions[v].versionNumber = versions[w].versionNumber => v = w
          /\ VersionNumbers(pid) = 1..Cardinality(VersionsOf(pid))

\* C30: each index version a run writes lists at most 30 pages, each of them a
\* page whose route starts with the section prefix and none twice, newest
\* first by creation time, the post of that run among them.
C30_IndexListing ==
    [][ \A p \in Procs :
          (proc[p].pc = "run_index_create" /\ proc'[p].pc = "run_cadence") =>
             LET list == versions'[Len(versions')].list
                 section == schedules[proc[p].sid].section
             IN /\ versions'[Len(versions')].pageId = proc[p].indexPage
                /\ Len(list) <= 30
                /\ \A a \in DOMAIN list :
                      /\ list[a] \in PageIds
                      /\ Len(pages[list[a]].route) = 2
                      /\ pages[list[a]].route[1] = << section, -1 >>
                /\ \A a, b \in DOMAIN list :
                      a < b => /\ list[a] # list[b]
                               /\ pages[list[a]].createdAt >= pages[list[b]].createdAt
                /\ \E a \in DOMAIN list : list[a] = proc[p].postPage
      ]_vars

\* C30's case: the section holds more than 30 posts and the run has written a
\* listing of exactly 30, its own post first.
C30_Witness ==
    /\ Cardinality(PostPages) > 30
    /\ proc["h1"].pc = "run_cadence"
    /\ Len(versions[Len(versions)].list) = 30
    /\ versions[Len(versions)].list[1] = proc["h1"].postPage

\* C31: when a run fails in the nested publish, after its cadence step, the run
\* is marked failed while the schedule's lastRunAt is the time of the cadence
\* step and its nextRunAt is later than that time, so that a tick at the time
\* of the run does not find the schedule due.
C31_FailedPublishAdvances ==
    [][ \A p \in Procs :
          ( /\ proc[p].pc = "run_catch"
            /\ proc[p].pub \in {"threw", "renderer_error"}
            /\ proc'[p] # proc[p] ) =>
             LET s == schedules'[proc[p].sid]
             IN /\ runs'[proc[p].runId].status = "failed"
                /\ proc[p].cadenceAt >= runs[proc[p].runId].createdAt
                /\ s.lastRunAt >= proc[p].cadenceAt
                /\ s.nextRunAt > proc[p].cadenceAt
      ]_vars

\* C32: for each of the block types hero, content, contacts, faq and
\* footer_links the body holds at most one section, rendered from the first
\* block of that type whose enabled flag is not false (an absent flag counts
\* as enabled); a disabled block and a later block of the type never render,
\* and hero, content and contacts do render when such a block exists.
C32_FirstEnabledBlock ==
    calc.op = "body" =>
       \A type \in {"hero", "content", "contacts", "faq", "footer_links"} :
          LET shown == PartsOf(calc.parts, type)
              en == { i \in DOMAIN calc.blocks :
                        calc.blocks[i].type = type /\ calc.blocks[i].enabled \in {"true", "absent"} }
          IN /\ Cardinality(shown) <= 1
             /\ \A a \in shown :
                   /\ calc.parts[a].from \in en
                   /\ \A j \in en : calc.parts[a].from <= j
             /\ (type \in {"hero", "content", "contacts"} /\ en # {}) => shown # {}

\* C32's case: of three hero blocks, the first disabled and the second without
\* a flag, the body holds one hero section, rendered from the second.
C32_Witness ==
    /\ calc.op = "body"
    /\ Len(calc.blocks) = 3
    /\ \A i \in 1..3 : calc.blocks[i].type = "hero"
    /\ calc.blocks[1].enabled = "false"
    /\ calc.blocks[2].enabled = "absent"
    /\ calc.blocks[3].enabled = "true"
    /\ Cardinality(PartsOf(calc.parts, "hero")) = 1
    /\ \E a \in DOMAIN calc.parts : calc.parts[a].section = "hero" /\ calc.parts[a].from = 2

\* The runs of schedule sid that are in status running.
RunningRuns(sid) ==
    { r \in DOMAIN runs : runs[r].scheduleId = sid /\ runs[r].status = "running" }

\* C33: at no time are two AutopostRuns of one schedule in status running: a
\* tick or a run-now that arrives while a run of the schedule is in progress
\* starts no second run of it.
C33_OneRunInProgress ==
    \A sid \in DOMAIN schedules : Cardinality(RunningRuns(sid)) <= 1

\* The post pages created by the runs of schedules that require approval.
AwaitingApproval ==
    { pid \in PostPages :
        \E r \in DOMAIN runs :
           /\ runs[r].createdPageId = pid
           /\ schedules[runs[r].scheduleId].requireApproval }

\* C34: a post created by a run of a schedule that requires approval is not
\* promoted by a later publish of the site made for another reason: none of
\* its versions is flagged published, the page stays a draft, and the output
\* directory and sitemap.xml hold nothing of it.
C34_UnapprovedPostHeldBack ==
    \A pid \in AwaitingApproval :
       /\ PublishedVersions(pid) = {}
       /\ pages[pid].status = "draft"
       /\ \A f \in files : f.page # pid
       /\ \A j \in DOMAIN sitemap : sitemap[j].path # pages[pid].route

\* No publish is in flight and none has ended in success: every publish made
\* so far ended in failure.
EveryPublishFailed ==
    /\ \A p \in Procs : proc[p].pub \notin {"active", "ok"}
    /\ \A b \in BuildIds : builds[b].status # "published"

\* C35: a publish that ends in failure leaves the isPublished flag of every
\* PageVersion and the status of every Page as they were before it started:
\* as long as every publish of the site has failed, every page is the draft
\* it was created as and the starter and placeholder versions, created
\* unpublished, are unpublished.
C35_FailedPublishNoEffect ==
    EveryPublishFailed =>
       /\ \A pid \in PageIds : pages[pid].status = "draft"
       /\ \A v \in VersionIds :
             versions[v].kind \in {"starter", "placeholder"} => ~versions[v].isPublished

\* C36: within one build, pages with distinct routes are written to distinct
\* output files, routes that differ only by a trailing slash included: every
\* page keeps a file of its own in the output directory, and sitemap.xml holds
\* one entry for each file.
C36_DistinctRouteFiles ==
    calc.op = "written" =>
       /\ \A i, j \in DOMAIN calc.routes :
             i # j => routeToFile(calc.routes[i]) # routeToFile(calc.routes[j])
       /\ \A j \in DOMAIN calc.routes :
             \E f \in calc.files : f.page = j /\ f.dir = routeToFile(calc.routes[j])
       /\ Len(calc.sitemap) = Cardinality(calc.files)

\* C37: for every cadence type and every integer cadence parameter, zero,
\* negative and missing values included, the computed run time is strictly
\* later than the time of the call, so that a tick at the instant of the call
\* does not find the schedule due.
C37_StrictlyLater ==
    calc.op = "nextRunAt" => calc.at > calc.t

====
